---- MODULE Spec2Model ----
(***************************************************************************)
(* The story repository of prdman (src/services/StoryRepoJson.ts; the      *)
(* feature/PRD variant src/services/PrdRepoJson.ts is the same code with   *)
(* renamed terms).  The persisted data store is a JSON object mapping a    *)
(* PRD id to the array of its stories; every operation loads the whole     *)
(* store, transforms it in memory and saves the whole store.               *)
(***************************************************************************)
EXTENDS Integers, Sequences, FiniteSets, TLC

VARIABLES
    data,   \* the persisted DataStore: PRD id -> sequence of StoryItem
    now,    \* the wall clock read by `new Date()`
    pre,    \* the DataStore as it was when the last operation was called
    last,   \* the last operation called: its arguments, the time of the
            \* call and what it returned
    passwordFile,   \* ~/.config/prdman/password: absent, or its content
    file,   \* ~/.config/prdman/data.json: missing, a text, or the JSON
            \* that save wrote
    proc    \* where each process that works on the file is: idle, or
            \* between the load and the save of an operation

vars == <<data, now, pre, last, passwordFile, file, proc>>

----------------------------------------------------------------------------
(* Bounds of the model *)

MaxClock == 2        \* the clock runs over 1..MaxClock
MaxPriority == 2     \* priorities are drawn from 1..MaxPriority
MaxBatch == 2        \* an import file carries at most MaxBatch items
MaxSecretLen == 3    \* a password has at most MaxSecretLen characters

PrdIds == {"AUTH", "PAY"}
PrdIdOrder == <<"AUTH", "PAY">>      \* the string order `sort()` uses
StoryIds == {"AUTH-0001", "AUTH-0002"}
Priorities == 1..MaxPriority

----------------------------------------------------------------------------
(* Values of the domain: src/domain/Story.ts *)

\* an optional value: absent (undefined) or present
None == <<>>
Some(v) == <<v>>
IsSome(o) == o # <<>>
Get(o) == o[1]

Status == {"todo", "done", "sent-back"}

\* the user fields of a story, shared by StoryItemInput and StoryItem
StoryItemInput(id, priority, name, description, steps, criteria, status, note) ==
    [id |-> id, priority |-> priority, name |-> name,
     description |-> description, steps |-> steps,
     acceptanceCriteria |-> criteria, status |-> status, note |-> note]

\* a partial input: every field optional, the id included
StoryItemPartialInput(id, priority, name, description, steps, criteria, status, note) ==
    [id |-> id, priority |-> priority, name |-> name,
     description |-> description, steps |-> steps,
     acceptanceCriteria |-> criteria, status |-> status, note |-> note]

\* fault: the optional note of the input is not carried over
StoryItem_NoNote(input, createdAt, updatedAt, locked) ==
    [id |-> input.id, priority |-> input.priority, name |-> input.name,
     description |-> input.description, steps |-> input.steps,
     acceptanceCriteria |-> input.acceptanceCriteria,
     status |-> input.status, note |-> None,
     createdAt |-> createdAt, updatedAt |-> updatedAt, locked |-> locked]

\* StoryItem.make({...input, createdAt, updatedAt, locked})
StoryItem(input, createdAt, updatedAt, locked) ==
    [id |-> input.id, priority |-> input.priority, name |-> input.name,
     description |-> input.description, steps |-> input.steps,
     acceptanceCriteria |-> input.acceptanceCriteria,
     status |-> input.status, note |-> input.note,
     createdAt |-> createdAt, updatedAt |-> updatedAt, locked |-> locked]

\* the user fields of a stored story
InputOf(story) ==
    StoryItemInput(story.id, story.priority, story.name, story.description,
                   story.steps, story.acceptanceCriteria, story.status,
                   story.note)

----------------------------------------------------------------------------
(* Inputs the operations are called with *)

RECURSIVE SeqsUpTo(_, _)
SeqsUpTo(S, n) ==
    IF n = 0 THEN {<<>>}
    ELSE LET shorter == SeqsUpTo(S, n - 1)
         IN  shorter \cup {Append(s, x) : s \in shorter, x \in S}

EmptyPartial ==
    StoryItemPartialInput(None, None, None, None, None, None, None, None)

\* Spec, the whole repository: two PRDs, two story ids, few values, and
\* every call within one reading of the clock
PlainInput(id) ==
    StoryItemInput(id, 1, "Login", "", <<"s1", "s2">>, <<>>, "todo", None)

StoryInputs == {PlainInput(id) : id \in StoryIds}

PartialInputs ==
    { EmptyPartial,
      [EmptyPartial EXCEPT !.id = Some("AUTH-0002"), !.status = Some("done")] }

StatusInputs == {"todo", "done"}

\* the import files: { id: prdId, items: [...] }
ImportFiles ==
    {[id |-> p, items |-> its] : p \in PrdIds,
                                 its \in SeqsUpTo(StoryInputs, MaxBatch)}

\* SpecStory, the life of one story: every combination of field values
TheStoryId == "AUTH-0001"
StoryPriorities == {1, 2}
Names == {"Login", "Logout"}
Descriptions == {"", "desc"}
StepLists == {<<>>, <<"s1", "s2">>, <<"s3">>}
CriteriaLists == {<<>>, <<"c1">>}
Notes == {"n1"}
Optional(S) == {None} \cup {Some(v) : v \in S}

\* description, steps, acceptanceCriteria and status of an input
Bodies ==
    { <<"", <<>>, <<>>, "todo">>,
      <<"desc", <<"s1", "s2">>, <<"c1">>, "done">>,
      <<"desc", <<"s3">>, <<>>, "sent-back">> }

RichInputs ==
    {StoryItemInput(TheStoryId, p, "Login", b[1], b[2], b[3], b[4], nt) :
        p \in StoryPriorities, b \in Bodies, nt \in Optional(Notes)}

PartialFields ==
    {"id", "priority", "name", "description", "steps", "acceptanceCriteria",
     "status", "note"}

FieldValues(f) ==
    CASE f = "id" -> StoryIds
      [] f = "priority" -> StoryPriorities
      [] f = "name" -> Names
      [] f = "description" -> Descriptions
      [] f = "steps" -> StepLists
      [] f = "acceptanceCriteria" -> CriteriaLists
      [] f = "status" -> Status
      [] f = "note" -> Notes

\* the partials that supply no field or one field, and one that supplies
\* every field
RichPartials ==
    {EmptyPartial}
    \cup UNION {{[EmptyPartial EXCEPT ![f] = Some(v)] : v \in FieldValues(f)} :
                  f \in PartialFields}
    \cup {StoryItemPartialInput(Some("AUTH-0002"), Some(1), Some("Logout"),
                                Some("desc"), Some(<<"s3">>), Some(<<"c1">>),
                                Some("done"), Some("n1"))}

\* SpecList, the order of list: one PRD, three stories, priorities
ListIds == {"AUTH-0001", "AUTH-0002", "AUTH-0003"}
ListInputs ==
    {StoryItemInput(id, p, "Login", "", <<>>, <<>>, "todo", None) :
        id \in ListIds, p \in Priorities}
ListPartials ==
    {[EmptyPartial EXCEPT !.priority = Some(p)] : p \in Priorities}

----------------------------------------------------------------------------
(* Helpers of the repository *)

\* data[prdId] ?? []
getPrdStories(d, prdId) == IF prdId \in DOMAIN d THEN d[prdId] ELSE <<>>

\* { ...data, [prdId]: stories }
Put(d, prdId, stories) ==
    [k \in (DOMAIN d) \cup {prdId} |-> IF k = prdId THEN stories ELSE d[k]]

\* const { [prdId]: _, ...newData } = data
Omit(d, prdId) == [k \in (DOMAIN d) \ {prdId} |-> d[k]]

\* stories.some((story) => story.id === id)
some(stories, id) == \E k \in 1..Len(stories) : stories[k].id = id

\* stories.findIndex((story) => story.id === id); 0 stands for -1
findIndex(stories, id) ==
    IF some(stories, id)
    THEN CHOOSE k \in 1..Len(stories) :
            /\ stories[k].id = id
            /\ \A j \in 1..(k - 1) : stories[j].id # id
    ELSE 0

\* stories.filter((story) => story.id !== id)
withoutId(stories, id) ==
    LET keep(story) == story.id # id IN SelectSeq(stories, keep)

\* fault: no story is found locked
lockedStories_None(stories) == SubSeq(stories, 1, 0)

\* stories.filter((story) => story.locked)
lockedStories(stories) ==
    LET isLocked(story) == story.locked IN SelectSeq(stories, isLocked)

\* stories.map((story) => story.id)
ids(stories) == [k \in 1..Len(stories) |-> stories[k].id]

\* the tagged errors of src/domain/errors.ts
StoryNotFoundError(prdId, id) ==
    [tag |-> "StoryNotFoundError", prdId |-> prdId, id |-> id]
StoryLockedError(id) == [tag |-> "StoryLockedError", id |-> id]
DuplicateIdError(prdId, id) ==
    [tag |-> "DuplicateIdError", prdId |-> prdId, id |-> id]
PrdHasLockedStoriesError(prdId, lockedIds) ==
    [tag |-> "PrdHasLockedStoriesError", prdId |-> prdId,
     lockedIds |-> lockedIds]

\* an operation returns: the call is recorded with its outcome, and the
\* store becomes newData (on the failure paths save is never reached)
Return(op, prdId, id, arg, kind, value, newData) ==
    /\ last' = [op |-> op, prdId |-> prdId, id |-> id, arg |-> arg,
                at |-> now, kind |-> kind, value |-> value]
    /\ pre' = data
    /\ data' = newData
    /\ UNCHANGED <<now, passwordFile, file, proc>>

Succeed(op, prdId, id, arg, value, newData) ==
    Return(op, prdId, id, arg, "ok", value, newData)
Fail(op, prdId, id, arg, error) ==
    Return(op, prdId, id, arg, error.tag, error, data)

NoId == "-"
NoArg == "-"
Void == "void"

----------------------------------------------------------------------------
(* The data file.  In the specifications of the operations each operation  *)
(* is one step and data is the store as load returns it; the               *)
(* specifications of the file take the content of the file and the steps   *)
(* of the processes apart.                                                 *)

Procs == {"A", "B"}
Idle == [pc |-> "idle"]
AllIdle == [p \in Procs |-> Idle]

\* the file does not exist; the file holds a text that is not JSON (a
\* sequence of characters); the file holds the JSON of a store
MissingFile == [kind |-> "missing"]
TextFile(text) == [kind |-> "text", text |-> text]
JsonFile(json) == [kind |-> "json", json |-> json]

----------------------------------------------------------------------------
\* load on a missing or empty file: {}
EmptyStore == [k \in {} |-> <<>>]

Init ==
    /\ data = EmptyStore
    /\ now = 1
    /\ pre = EmptyStore
    /\ last = [op |-> "init", prdId |-> NoId, id |-> NoId, arg |-> NoArg,
               at |-> 1, kind |-> "ok", value |-> Void]
    /\ file = MissingFile
    /\ proc = AllIdle
    /\ passwordFile = None

\* time passes between two reads of the clock
Tick ==
    /\ now < MaxClock
    /\ now' = now + 1
    /\ UNCHANGED <<data, pre, last, passwordFile, file, proc>>

----------------------------------------------------------------------------
(* The operations of the repository *)

\* fault: the duplicate check looks at the stories of every PRD
create_AnyPrd(prdId, input) ==
    LET stories == getPrdStories(data, prdId)
        exists == \E p \in DOMAIN data : some(data[p], input.id)
    IN  IF exists
        THEN Fail("create", prdId, input.id, input,
                  DuplicateIdError(prdId, input.id))
        ELSE LET newStory == StoryItem(input, now, now, FALSE)
             IN  Succeed("create", prdId, input.id, input, newStory,
                         Put(data, prdId, Append(stories, newStory)))

create(prdId, input) ==
    LET stories == getPrdStories(data, prdId)
        exists == some(stories, input.id)
    IN  IF exists
        THEN Fail("create", prdId, input.id, input,
                  DuplicateIdError(prdId, input.id))
        ELSE LET newStory == StoryItem(input, now, now, FALSE)
             IN  Succeed("create", prdId, input.id, input, newStory,
                         Put(data, prdId, Append(stories, newStory)))

\* fault: the id of the partial is merged like the other fields
mergePartial_TakesId(existing, partial, t) ==
    [existing EXCEPT
        !.id = IF IsSome(partial.id) THEN Get(partial.id) ELSE @,
        !.priority = IF IsSome(partial.priority) THEN Get(partial.priority)
                     ELSE @,
        !.name = IF IsSome(partial.name) THEN Get(partial.name) ELSE @,
        !.description = IF IsSome(partial.description)
                        THEN Get(partial.description) ELSE @,
        !.steps = IF IsSome(partial.steps) THEN Get(partial.steps) ELSE @,
        !.acceptanceCriteria = IF IsSome(partial.acceptanceCriteria)
                               THEN Get(partial.acceptanceCriteria) ELSE @,
        !.status = IF IsSome(partial.status) THEN Get(partial.status) ELSE @,
        !.note = IF IsSome(partial.note) THEN partial.note ELSE @,
        !.updatedAt = t]

\* fault: supplied steps are appended to the existing ones (a deep merge)
mergePartial_AppendsSteps(existing, partial, t) ==
    [existing EXCEPT
        !.priority = IF IsSome(partial.priority) THEN Get(partial.priority)
                     ELSE @,
        !.name = IF IsSome(partial.name) THEN Get(partial.name) ELSE @,
        !.description = IF IsSome(partial.description)
                        THEN Get(partial.description) ELSE @,
        !.steps = IF IsSome(partial.steps) THEN @ \o Get(partial.steps)
                  ELSE @,
        !.acceptanceCriteria = IF IsSome(partial.acceptanceCriteria)
                               THEN Get(partial.acceptanceCriteria) ELSE @,
        !.status = IF IsSome(partial.status) THEN Get(partial.status) ELSE @,
        !.note = IF IsSome(partial.note) THEN partial.note ELSE @,
        !.updatedAt = t]

\* fault: an array that is supplied empty is taken as not supplied
mergePartial_SkipsEmpty(existing, partial, t) ==
    [id |-> existing.id,
     priority |-> IF IsSome(partial.priority) THEN Get(partial.priority)
                  ELSE existing.priority,
     name |-> IF IsSome(partial.name) THEN Get(partial.name)
              ELSE existing.name,
     description |-> IF IsSome(partial.description)
                     THEN Get(partial.description)
                     ELSE existing.description,
     steps |-> IF IsSome(partial.steps) /\ Get(partial.steps) # <<>>
               THEN Get(partial.steps)
               ELSE existing.steps,
     acceptanceCriteria |-> IF /\ IsSome(partial.acceptanceCriteria)
                               /\ Get(partial.acceptanceCriteria) # <<>>
                            THEN Get(partial.acceptanceCriteria)
                            ELSE existing.acceptanceCriteria,
     status |-> IF IsSome(partial.status) THEN Get(partial.status)
                ELSE existing.status,
     note |-> IF IsSome(partial.note) THEN partial.note ELSE existing.note,
     createdAt |-> existing.createdAt,
     updatedAt |-> t,
     locked |-> existing.locked]

\* the merge of update: the fields the partial supplies override the
\* existing ones; id, createdAt and locked are taken from the existing story
mergePartial(existing, partial, t) ==
    [id |-> existing.id,
     priority |-> IF IsSome(partial.priority) THEN Get(partial.priority)
                  ELSE existing.priority,
     name |-> IF IsSome(partial.name) THEN Get(partial.name)
              ELSE existing.name,
     description |-> IF IsSome(partial.description)
                     THEN Get(partial.description)
                     ELSE existing.description,
     steps |-> IF IsSome(partial.steps) THEN Get(partial.steps)
               ELSE existing.steps,
     acceptanceCriteria |-> IF IsSome(partial.acceptanceCriteria)
                            THEN Get(partial.acceptanceCriteria)
                            ELSE existing.acceptanceCriteria,
     status |-> IF IsSome(partial.status) THEN Get(partial.status)
                ELSE existing.status,
     note |-> IF IsSome(partial.note) THEN partial.note ELSE existing.note,
     createdAt |-> existing.createdAt,
     updatedAt |-> t,
     locked |-> existing.locked]

\* fault: the lock of the existing story is not consulted
update_NoLockCheck(prdId, id, partial) ==
    LET stories == getPrdStories(data, prdId)
        index == findIndex(stories, id)
    IN  IF index = 0
        THEN Fail("update", prdId, id, partial, StoryNotFoundError(prdId, id))
        ELSE LET updated == mergePartial(stories[index], partial, now)
             IN  Succeed("update", prdId, id, partial, updated,
                         Put(data, prdId, [stories EXCEPT ![index] = updated]))

\* fault: update refuses when any story of the PRD is locked
update_SiblingLock(prdId, id, partial) ==
    LET stories == getPrdStories(data, prdId)
        index == findIndex(stories, id)
    IN  IF index = 0
        THEN Fail("update", prdId, id, partial, StoryNotFoundError(prdId, id))
        ELSE IF Len(lockedStories(stories)) > 0
        THEN Fail("update", prdId, id, partial, StoryLockedError(id))
        ELSE LET updated == mergePartial(stories[index], partial, now)
             IN  Succeed("update", prdId, id, partial, updated,
                         Put(data, prdId, [stories EXCEPT ![index] = updated]))

\* fault: the updated story is taken out and put at the end
update_MovesToEnd(prdId, id, partial) ==
    LET stories == getPrdStories(data, prdId)
        index == findIndex(stories, id)
    IN  IF index = 0
        THEN Fail("update", prdId, id, partial, StoryNotFoundError(prdId, id))
        ELSE IF stories[index].locked
        THEN Fail("update", prdId, id, partial, StoryLockedError(id))
        ELSE LET updated == mergePartial(stories[index], partial, now)
             IN  Succeed("update", prdId, id, partial, updated,
                         Put(data, prdId,
                             Append(withoutId(stories, id), updated)))

update(prdId, id, partial) ==
    LET stories == getPrdStories(data, prdId)
        index == findIndex(stories, id)
    IN  IF index = 0
        THEN Fail("update", prdId, id, partial, StoryNotFoundError(prdId, id))
        ELSE IF stories[index].locked
        THEN Fail("update", prdId, id, partial, StoryLockedError(id))
        ELSE LET updated == mergePartial(stories[index], partial, now)
             IN  Succeed("update", prdId, id, partial, updated,
                         Put(data, prdId, [stories EXCEPT ![index] = updated]))

\* fault: the story is rebuilt with the default lock
withStatus_DefaultLock(existing, status, t) ==
    [existing EXCEPT !.status = status, !.updatedAt = t, !.locked = FALSE]

\* { ...existing, status, updatedAt: new Date() }
withStatus(existing, status, t) ==
    [existing EXCEPT !.status = status, !.updatedAt = t]

\* fault: updateStatus refuses a locked story, as update does
updateStatus_LockChecked(prdId, id, status) ==
    LET stories == getPrdStories(data, prdId)
        index == findIndex(stories, id)
    IN  IF index = 0
        THEN Fail("updateStatus", prdId, id, status,
                  StoryNotFoundError(prdId, id))
        ELSE IF stories[index].locked
        THEN Fail("updateStatus", prdId, id, status, StoryLockedError(id))
        ELSE LET updated == withStatus(stories[index], status, now)
             IN  Succeed("updateStatus", prdId, id, status, updated,
                         Put(data, prdId, [stories EXCEPT ![index] = updated]))

updateStatus(prdId, id, status) ==
    LET stories == getPrdStories(data, prdId)
        index == findIndex(stories, id)
    IN  IF index = 0
        THEN Fail("updateStatus", prdId, id, status,
                  StoryNotFoundError(prdId, id))
        ELSE LET updated == withStatus(stories[index], status, now)
             IN  Succeed("updateStatus", prdId, id, status, updated,
                         Put(data, prdId, [stories EXCEPT ![index] = updated]))

\* fault: the lock of the story is not consulted
delete_NoLockCheck(prdId, id) ==
    LET stories == getPrdStories(data, prdId)
        index == findIndex(stories, id)
    IN  IF index = 0
        THEN Fail("delete", prdId, id, NoArg, StoryNotFoundError(prdId, id))
        ELSE Succeed("delete", prdId, id, NoArg, Void,
                     Put(data, prdId, withoutId(stories, id)))

delete_(prdId, id) ==
    LET stories == getPrdStories(data, prdId)
        index == findIndex(stories, id)
    IN  IF index = 0
        THEN Fail("delete", prdId, id, NoArg, StoryNotFoundError(prdId, id))
        ELSE IF stories[index].locked
        THEN Fail("delete", prdId, id, NoArg, StoryLockedError(id))
        ELSE Succeed("delete", prdId, id, NoArg, Void,
                     Put(data, prdId, withoutId(stories, id)))

\* fault: the story is put in front of the elements of equal priority
RECURSIVE insertByPriority_BeforeEqual(_, _)
insertByPriority_BeforeEqual(sorted, story) ==
    IF sorted = <<>> THEN <<story>>
    ELSE IF Head(sorted).priority - story.priority >= 0
    THEN <<story>> \o sorted
    ELSE <<Head(sorted)>>
            \o insertByPriority_BeforeEqual(Tail(sorted), story)

\* insert story into a sequence sorted by priority, after every element
\* whose priority is not greater (the comparator a.priority - b.priority
\* moves an element only in front of strictly greater ones)
RECURSIVE insertByPriority(_, _)
insertByPriority(sorted, story) ==
    IF sorted = <<>> THEN <<story>>
    ELSE IF Head(sorted).priority - story.priority > 0
    THEN <<story>> \o sorted
    ELSE <<Head(sorted)>> \o insertByPriority(Tail(sorted), story)

\* [...stories].sort((a, b) => a.priority - b.priority)
RECURSIVE sort(_)
sort(stories) ==
    IF stories = <<>> THEN <<>>
    ELSE insertByPriority(sort(SubSeq(stories, 1, Len(stories) - 1)),
                          stories[Len(stories)])

list(prdId) ==
    LET stories == getPrdStories(data, prdId)
    IN  Succeed("list", prdId, NoId, NoArg, sort(stories), data)

\* fault: the story is looked up in every PRD of the store, not only in
\* the one the call names
get_AnyPrd(prdId, id) ==
    LET stories == getPrdStories(data, prdId)
        holders == {p \in DOMAIN data : some(data[p], id)}
    IN  IF some(stories, id)
        THEN Succeed("get", prdId, id, NoArg,
                     stories[findIndex(stories, id)], data)
        ELSE IF holders = {}
        THEN Fail("get", prdId, id, NoArg, StoryNotFoundError(prdId, id))
        ELSE LET p == CHOOSE q \in holders : TRUE
             IN  Succeed("get", prdId, id, NoArg,
                         data[p][findIndex(data[p], id)], data)

get(prdId, id) ==
    LET stories == getPrdStories(data, prdId)
        index == findIndex(stories, id)
    IN  IF index = 0
        THEN Fail("get", prdId, id, NoArg, StoryNotFoundError(prdId, id))
        ELSE Succeed("get", prdId, id, NoArg, stories[index], data)

\* fault: the story is stamped only when the flag changes
withLocked_StampsOnChange(existing, locked, t) ==
    IF existing.locked = locked THEN existing
    ELSE [existing EXCEPT !.locked = locked, !.updatedAt = t]

\* { ...existing, locked, updatedAt: new Date() }
withLocked(existing, locked, t) ==
    [existing EXCEPT !.locked = locked, !.updatedAt = t]

\* fault: lock flips the flag, so that locking a locked story unlocks it
lock_Toggles(prdId, id) ==
    LET stories == getPrdStories(data, prdId)
        index == findIndex(stories, id)
    IN  IF index = 0
        THEN Fail("lock", prdId, id, NoArg, StoryNotFoundError(prdId, id))
        ELSE Succeed("lock", prdId, id, NoArg, Void,
                     Put(data, prdId,
                         [stories EXCEPT
                            ![index] = withLocked(stories[index],
                                                  ~stories[index].locked,
                                                  now)]))

lock(prdId, id) ==
    LET stories == getPrdStories(data, prdId)
        index == findIndex(stories, id)
    IN  IF index = 0
        THEN Fail("lock", prdId, id, NoArg, StoryNotFoundError(prdId, id))
        ELSE Succeed("lock", prdId, id, NoArg, Void,
                     Put(data, prdId,
                         [stories EXCEPT
                            ![index] = withLocked(stories[index], TRUE, now)]))

unlock(prdId, id) ==
    LET stories == getPrdStories(data, prdId)
        index == findIndex(stories, id)
    IN  IF index = 0
        THEN Fail("unlock", prdId, id, NoArg, StoryNotFoundError(prdId, id))
        ELSE Succeed("unlock", prdId, id, NoArg, Void,
                     Put(data, prdId,
                         [stories EXCEPT
                            ![index] = withLocked(stories[index], FALSE, now)]))

\* fault: the keys are not filtered, a key holding no story is returned
listPrds_NoFilter ==
    LET present(prdId) == prdId \in DOMAIN data
    IN  Succeed("listPrds", NoId, NoId, NoArg,
                SelectSeq(PrdIdOrder, present), data)

\* Object.keys(data).filter(non-empty).sort()
listPrds ==
    LET nonEmpty(prdId) == prdId \in DOMAIN data /\ Len(data[prdId]) > 0
    IN  Succeed("listPrds", NoId, NoId, NoArg,
                SelectSeq(PrdIdOrder, nonEmpty), data)

\* fault: the ids added by the batch are not remembered (existingIds is
\* computed once, from the stories loaded)
RECURSIVE importItems_StaleIds(_, _, _, _)
importItems_StaleIds(loaded, stories, items, t) ==
    IF items = <<>> THEN [stories |-> stories, created |-> 0, skipped |-> 0]
    ELSE IF some(loaded, Head(items).id)
    THEN LET r == importItems_StaleIds(loaded, stories, Tail(items), t)
         IN  [r EXCEPT !.skipped = @ + 1]
    ELSE LET newStory == StoryItem(Head(items), t, t, FALSE)
             r == importItems_StaleIds(loaded, Append(stories, newStory),
                                       Tail(items), t)
         IN  [r EXCEPT !.created = @ + 1]

importItems_Stale(stories, items, t) ==
    importItems_StaleIds(stories, stories, items, t)

\* fault: an item whose id is taken replaces the fields of the story that
\* has the id (and is counted as skipped)
RECURSIVE importItems_LastWins(_, _, _)
importItems_LastWins(stories, items, t) ==
    IF items = <<>> THEN [stories |-> stories, created |-> 0, skipped |-> 0]
    ELSE IF some(stories, Head(items).id)
    THEN LET index == findIndex(stories, Head(items).id)
             replaced == StoryItem(Head(items), stories[index].createdAt,
                                   stories[index].updatedAt,
                                   stories[index].locked)
             r == importItems_LastWins([stories EXCEPT ![index] = replaced],
                                       Tail(items), t)
         IN  [r EXCEPT !.skipped = @ + 1]
    ELSE LET newStory == StoryItem(Head(items), t, t, FALSE)
             r == importItems_LastWins(Append(stories, newStory),
                                       Tail(items), t)
         IN  [r EXCEPT !.created = @ + 1]

\* fault: an item whose id is taken stamps the story that has the id as
\* updated
RECURSIVE importItems_Touches(_, _, _)
importItems_Touches(stories, items, t) ==
    IF items = <<>> THEN [stories |-> stories, created |-> 0, skipped |-> 0]
    ELSE IF some(stories, Head(items).id)
    THEN LET index == findIndex(stories, Head(items).id)
             r == importItems_Touches(
                     [stories EXCEPT ![index].updatedAt = t],
                     Tail(items), t)
         IN  [r EXCEPT !.skipped = @ + 1]
    ELSE LET newStory == StoryItem(Head(items), t, t, FALSE)
             r == importItems_Touches(Append(stories, newStory),
                                      Tail(items), t)
         IN  [r EXCEPT !.created = @ + 1]

\* fault: the stories of the batch replace the stories of the PRD
importItems_Replaces(stories, items, t) ==
    importItems_LastWins(<<>>, items, t)

\* the loop of importFile over the items, from the stories so far; the
\* loop runs within one reading t of the clock
RECURSIVE importItems(_, _, _)
importItems(stories, items, t) ==
    IF items = <<>> THEN [stories |-> stories, created |-> 0, skipped |-> 0]
    ELSE IF some(stories, Head(items).id)
    THEN LET r == importItems(stories, Tail(items), t)
         IN  [r EXCEPT !.skipped = @ + 1]
    ELSE LET newStory == StoryItem(Head(items), t, t, FALSE)
             r == importItems(Append(stories, newStory), Tail(items), t)
         IN  [r EXCEPT !.created = @ + 1]

importFile(importData) ==
    LET stories == getPrdStories(data, importData.id)
        r == importItems(stories, importData.items, now)
    IN  Succeed("importFile", importData.id, NoId, importData.items,
                [created |-> r.created, skipped |-> r.skipped],
                Put(data, importData.id, r.stories))

\* fault: the stories that are not locked are deleted before the locked
\* ones are reported
deletePrd_DeletesUnlocked(prdId) ==
    LET stories == getPrdStories(data, prdId)
        lockedIds == ids(lockedStories(stories))
    IN  IF Len(stories) = 0
        THEN Succeed("deletePrd", prdId, NoId, NoArg, [deleted |-> 0], data)
        ELSE IF Len(lockedIds) > 0
        THEN Return("deletePrd", prdId, NoId, NoArg,
                    "PrdHasLockedStoriesError",
                    PrdHasLockedStoriesError(prdId, lockedIds),
                    Put(data, prdId, lockedStories(stories)))
        ELSE Succeed("deletePrd", prdId, NoId, NoArg,
                     [deleted |-> Len(stories)], Omit(data, prdId))

\* fault: the PRD is emptied as delete empties it, its key stays
deletePrd_KeepsKey(prdId) ==
    LET stories == getPrdStories(data, prdId)
        lockedIds == ids(lockedStories(stories))
    IN  IF Len(stories) = 0
        THEN Succeed("deletePrd", prdId, NoId, NoArg, [deleted |-> 0], data)
        ELSE IF Len(lockedIds) > 0
        THEN Fail("deletePrd", prdId, NoId, NoArg,
                  PrdHasLockedStoriesError(prdId, lockedIds))
        ELSE Succeed("deletePrd", prdId, NoId, NoArg,
                     [deleted |-> Len(stories)], Put(data, prdId, <<>>))

deletePrd(prdId) ==
    LET stories == getPrdStories(data, prdId)
        lockedIds == ids(lockedStories(stories))
    IN  IF Len(stories) = 0
        THEN Succeed("deletePrd", prdId, NoId, NoArg, [deleted |-> 0], data)
        ELSE IF Len(lockedIds) > 0
        THEN Fail("deletePrd", prdId, NoId, NoArg,
                  PrdHasLockedStoriesError(prdId, lockedIds))
        ELSE Succeed("deletePrd", prdId, NoId, NoArg,
                     [deleted |-> Len(stories)], Omit(data, prdId))

\* fault: the forced deletion checks the locks as deletePrd does
deletePrdForce_LockChecked(prdId) ==
    LET stories == getPrdStories(data, prdId)
        lockedIds == ids(lockedStories(stories))
    IN  IF Len(stories) = 0
        THEN Succeed("deletePrdForce", prdId, NoId, NoArg, [deleted |-> 0],
                     data)
        ELSE IF Len(lockedIds) > 0
        THEN Fail("deletePrdForce", prdId, NoId, NoArg,
                  PrdHasLockedStoriesError(prdId, lockedIds))
        ELSE Succeed("deletePrdForce", prdId, NoId, NoArg,
                     [deleted |-> Len(stories)], Omit(data, prdId))

\* fault: the forced deletion writes an empty list under the key
deletePrdForce_KeepsKey(prdId) ==
    LET stories == getPrdStories(data, prdId)
        deleted == Len(stories)
    IN  IF deleted = 0
        THEN Succeed("deletePrdForce", prdId, NoId, NoArg, [deleted |-> 0],
                     data)
        ELSE Succeed("deletePrdForce", prdId, NoId, NoArg,
                     [deleted |-> deleted], Put(data, prdId, <<>>))

deletePrdForce(prdId) ==
    LET stories == getPrdStories(data, prdId)
        deleted == Len(stories)
    IN  IF deleted = 0
        THEN Succeed("deletePrdForce", prdId, NoId, NoArg, [deleted |-> 0],
                     data)
        ELSE Succeed("deletePrdForce", prdId, NoId, NoArg,
                     [deleted |-> deleted], Omit(data, prdId))

----------------------------------------------------------------------------
(* The password service and the commands that ask for the password *)

\* a string is the sequence of its characters
Chars == {"a", "A", " "}
WhiteSpace == {" "}
Secrets == SeqsUpTo(Chars, MaxSecretLen)

\* String.prototype.trim: the white space at both ends is dropped
RECURSIVE trimStart(_)
trimStart(str) ==
    IF str # <<>> /\ Head(str) \in WhiteSpace THEN trimStart(Tail(str))
    ELSE str

RECURSIVE trimEnd(_)
trimEnd(str) ==
    IF str # <<>> /\ str[Len(str)] \in WhiteSpace
    THEN trimEnd(SubSeq(str, 1, Len(str) - 1))
    ELSE str

trim(str) == trimEnd(trimStart(str))

InvalidPasswordError == [tag |-> "InvalidPasswordError"]
PasswordNotConfiguredError == [tag |-> "PasswordNotConfiguredError"]

\* fault: the content of the file is compared as it is read
verifyFailure_NoTrim(password) ==
    IF passwordFile = None THEN Some(PasswordNotConfiguredError)
    ELSE IF Get(passwordFile) # password THEN Some(InvalidPasswordError)
    ELSE None

\* the error verify fails with, or None where it succeeds
verifyFailure(password) ==
    IF passwordFile = None THEN Some(PasswordNotConfiguredError)
    ELSE IF trim(Get(passwordFile)) # password THEN Some(InvalidPasswordError)
    ELSE None

verify(password) ==
    LET failure == verifyFailure(password)
    IN  IF IsSome(failure)
        THEN Fail("verify", NoId, NoId, password, Get(failure))
        ELSE Succeed("verify", NoId, NoId, password, Void, data)

\* what a command did: the services it called, in order, and the error it
\* caught and printed, if any
Ran(calls, error) == [calls |-> calls, error |-> error]

\* fault: the story is locked first and the password verified after
lockCommand_LockFirst(prdId, storyId, password) ==
    LET stories == getPrdStories(data, prdId)
        index == findIndex(stories, storyId)
        failure == verifyFailure(password)
    IN  IF index = 0
        THEN Return("lockCommand", prdId, storyId, password,
                    "StoryNotFoundError",
                    Ran(<<"lock">>, Some(StoryNotFoundError(prdId, storyId))),
                    data)
        ELSE Return("lockCommand", prdId, storyId, password,
                    IF IsSome(failure) THEN Get(failure).tag ELSE "ok",
                    Ran(<<"lock", "verify">>, failure),
                    Put(data, prdId,
                        [stories EXCEPT
                           ![index] = withLocked(stories[index], TRUE, now)]))

\* prdman lock <prd-id> <story-id> --password <password>
lockCommand(prdId, storyId, password) ==
    LET stories == getPrdStories(data, prdId)
        index == findIndex(stories, storyId)
        failure == verifyFailure(password)
    IN  IF IsSome(failure)
        THEN Return("lockCommand", prdId, storyId, password,
                    Get(failure).tag, Ran(<<"verify">>, failure), data)
        ELSE IF index = 0
        THEN Return("lockCommand", prdId, storyId, password,
                    "StoryNotFoundError",
                    Ran(<<"verify", "lock">>,
                        Some(StoryNotFoundError(prdId, storyId))),
                    data)
        ELSE Return("lockCommand", prdId, storyId, password, "ok",
                    Ran(<<"verify", "lock">>, None),
                    Put(data, prdId,
                        [stories EXCEPT
                           ![index] = withLocked(stories[index], TRUE, now)]))

\* prdman unlock <prd-id> <story-id> --password <password>
unlockCommand(prdId, storyId, password) ==
    LET stories == getPrdStories(data, prdId)
        index == findIndex(stories, storyId)
        failure == verifyFailure(password)
    IN  IF IsSome(failure)
        THEN Return("unlockCommand", prdId, storyId, password,
                    Get(failure).tag, Ran(<<"verify">>, failure), data)
        ELSE IF index = 0
        THEN Return("unlockCommand", prdId, storyId, password,
                    "StoryNotFoundError",
                    Ran(<<"verify", "unlock">>,
                        Some(StoryNotFoundError(prdId, storyId))),
                    data)
        ELSE Return("unlockCommand", prdId, storyId, password, "ok",
                    Ran(<<"verify", "unlock">>, None),
                    Put(data, prdId,
                        [stories EXCEPT
                           ![index] = withLocked(stories[index], FALSE, now)]))

\* the options of the delete command, and the answer to its prompt
DeleteOptions(password, yes, confirmed) ==
    [password |-> password, yes |-> yes, confirmed |-> confirmed]

\* what the delete command prints when stories are locked and no password
\* was given
CannotDeletePrd(prdId, lockedIds) ==
    [tag |-> "CannotDeletePrd", prdId |-> prdId, lockedIds |-> lockedIds]

\* what a command that deleted a PRD did, and the count it printed
Deleted(calls, deleted) ==
    [calls |-> calls, error |-> None, deleted |-> deleted]

\* prdman delete <prd-id> <story-id>: repo.delete, its errors printed
deleteStory(prdId, id, arg) ==
    LET stories == getPrdStories(data, prdId)
        index == findIndex(stories, id)
    IN  IF index = 0
        THEN Return("deleteCommand", prdId, id, arg, "StoryNotFoundError",
                    Ran(<<"delete">>, Some(StoryNotFoundError(prdId, id))),
                    data)
        ELSE IF stories[index].locked
        THEN Return("deleteCommand", prdId, id, arg, "StoryLockedError",
                    Ran(<<"delete">>, Some(StoryLockedError(id))), data)
        ELSE Return("deleteCommand", prdId, id, arg, "ok",
                    Ran(<<"delete">>, None),
                    Put(data, prdId, withoutId(stories, id)))

\* fault: --yes skips the refusal that asks for a password
deleteCommand_YesForces(prdId, storyId, password, yes, confirmed) ==
    LET stories == getPrdStories(data, prdId)
        listed == sort(stories)
        lockedListed == lockedStories(listed)
        hasLockedStories == Len(lockedListed) > 0
        failure == IF IsSome(password) THEN verifyFailure(Get(password))
                   ELSE None
        arg == DeleteOptions(password, yes, confirmed)
        asked == (IF hasLockedStories THEN <<"list", "verify">>
                  ELSE <<"list">>)
                     \o (IF yes THEN <<>> ELSE <<"confirm">>)
    IN  IF IsSome(storyId)
        THEN deleteStory(prdId, Get(storyId), arg)
        ELSE IF Len(listed) = 0
        THEN Return("deleteCommand", prdId, NoId, arg, "empty",
                    Ran(<<"list">>, None), data)
        ELSE IF hasLockedStories /\ password = None /\ ~yes
        THEN Return("deleteCommand", prdId, NoId, arg, "CannotDeletePrd",
                    Ran(<<"list">>,
                        Some(CannotDeletePrd(prdId, ids(lockedListed)))),
                    data)
        ELSE IF hasLockedStories /\ IsSome(failure)
        THEN Return("deleteCommand", prdId, NoId, arg, Get(failure).tag,
                    Ran(<<"list", "verify">>, failure), data)
        ELSE IF ~yes /\ ~confirmed
        THEN Return("deleteCommand", prdId, NoId, arg, "cancelled",
                    Ran(asked, None), data)
        ELSE IF hasLockedStories
        THEN Return("deleteCommand", prdId, NoId, arg, "ok",
                    Deleted(Append(asked, "deletePrdForce"), Len(stories)),
                    Omit(data, prdId))
        ELSE IF Len(ids(lockedStories(stories))) > 0
        THEN Return("deleteCommand", prdId, NoId, arg,
                    "PrdHasLockedStoriesError",
                    Ran(Append(asked, "deletePrd"),
                        Some(PrdHasLockedStoriesError(
                                prdId, ids(lockedStories(stories))))),
                    data)
        ELSE Return("deleteCommand", prdId, NoId, arg, "ok",
                    Deleted(Append(asked, "deletePrd"), Len(stories)),
                    Omit(data, prdId))

\* fault: the password given is not verified
deleteCommand_NoVerify(prdId, storyId, password, yes, confirmed) ==
    LET stories == getPrdStories(data, prdId)
        listed == sort(stories)
        lockedListed == lockedStories(listed)
        hasLockedStories == Len(lockedListed) > 0
        failure == None
        arg == DeleteOptions(password, yes, confirmed)
        asked == <<"list">>
                     \o (IF yes THEN <<>> ELSE <<"confirm">>)
    IN  IF IsSome(storyId)
        THEN deleteStory(prdId, Get(storyId), arg)
        ELSE IF Len(listed) = 0
        THEN Return("deleteCommand", prdId, NoId, arg, "empty",
                    Ran(<<"list">>, None), data)
        ELSE IF hasLockedStories /\ password = None
        THEN Return("deleteCommand", prdId, NoId, arg, "CannotDeletePrd",
                    Ran(<<"list">>,
                        Some(CannotDeletePrd(prdId, ids(lockedListed)))),
                    data)
        ELSE IF hasLockedStories /\ IsSome(failure)
        THEN Return("deleteCommand", prdId, NoId, arg, Get(failure).tag,
                    Ran(<<"list", "verify">>, failure), data)
        ELSE IF ~yes /\ ~confirmed
        THEN Return("deleteCommand", prdId, NoId, arg, "cancelled",
                    Ran(asked, None), data)
        ELSE IF hasLockedStories
        THEN Return("deleteCommand", prdId, NoId, arg, "ok",
                    Deleted(Append(asked, "deletePrdForce"), Len(stories)),
                    Omit(data, prdId))
        ELSE IF Len(ids(lockedStories(stories))) > 0
        THEN Return("deleteCommand", prdId, NoId, arg,
                    "PrdHasLockedStoriesError",
                    Ran(Append(asked, "deletePrd"),
                        Some(PrdHasLockedStoriesError(
                                prdId, ids(lockedStories(stories))))),
                    data)
        ELSE Return("deleteCommand", prdId, NoId, arg, "ok",
                    Deleted(Append(asked, "deletePrd"), Len(stories)),
                    Omit(data, prdId))

\* fault: the forced deletion is never chosen
deleteCommand_NeverForces(prdId, storyId, password, yes, confirmed) ==
    LET stories == getPrdStories(data, prdId)
        listed == sort(stories)
        lockedListed == lockedStories(listed)
        hasLockedStories == Len(lockedListed) > 0
        failure == IF IsSome(password) THEN verifyFailure(Get(password))
                   ELSE None
        arg == DeleteOptions(password, yes, confirmed)
        asked == (IF hasLockedStories THEN <<"list", "verify">>
                  ELSE <<"list">>)
                     \o (IF yes THEN <<>> ELSE <<"confirm">>)
    IN  IF IsSome(storyId)
        THEN deleteStory(prdId, Get(storyId), arg)
        ELSE IF Len(listed) = 0
        THEN Return("deleteCommand", prdId, NoId, arg, "empty",
                    Ran(<<"list">>, None), data)
        ELSE IF hasLockedStories /\ password = None
        THEN Return("deleteCommand", prdId, NoId, arg, "CannotDeletePrd",
                    Ran(<<"list">>,
                        Some(CannotDeletePrd(prdId, ids(lockedListed)))),
                    data)
        ELSE IF hasLockedStories /\ IsSome(failure)
        THEN Return("deleteCommand", prdId, NoId, arg, Get(failure).tag,
                    Ran(<<"list", "verify">>, failure), data)
        ELSE IF ~yes /\ ~confirmed
        THEN Return("deleteCommand", prdId, NoId, arg, "cancelled",
                    Ran(asked, None), data)
        ELSE IF Len(ids(lockedStories(stories))) > 0
        THEN Return("deleteCommand", prdId, NoId, arg,
                    "PrdHasLockedStoriesError",
                    Ran(Append(asked, "deletePrd"),
                        Some(PrdHasLockedStoriesError(
                                prdId, ids(lockedStories(stories))))),
                    data)
        ELSE Return("deleteCommand", prdId, NoId, arg, "ok",
                    Deleted(Append(asked, "deletePrd"), Len(stories)),
                    Omit(data, prdId))

\* fault: a password that is given is verified, locked stories or not
deleteCommand_AlwaysVerifies(prdId, storyId, password, yes, confirmed) ==
    LET stories == getPrdStories(data, prdId)
        listed == sort(stories)
        lockedListed == lockedStories(listed)
        hasLockedStories == Len(lockedListed) > 0
        failure == IF IsSome(password) THEN verifyFailure(Get(password))
                   ELSE None
        arg == DeleteOptions(password, yes, confirmed)
        asked == (IF IsSome(password) THEN <<"list", "verify">>
                  ELSE <<"list">>)
                     \o (IF yes THEN <<>> ELSE <<"confirm">>)
    IN  IF IsSome(storyId)
        THEN deleteStory(prdId, Get(storyId), arg)
        ELSE IF Len(listed) = 0
        THEN Return("deleteCommand", prdId, NoId, arg, "empty",
                    Ran(<<"list">>, None), data)
        ELSE IF hasLockedStories /\ password = None
        THEN Return("deleteCommand", prdId, NoId, arg, "CannotDeletePrd",
                    Ran(<<"list">>,
                        Some(CannotDeletePrd(prdId, ids(lockedListed)))),
                    data)
        ELSE IF IsSome(failure)
        THEN Return("deleteCommand", prdId, NoId, arg, Get(failure).tag,
                    Ran(<<"list", "verify">>, failure), data)
        ELSE IF ~yes /\ ~confirmed
        THEN Return("deleteCommand", prdId, NoId, arg, "cancelled",
                    Ran(asked, None), data)
        ELSE IF hasLockedStories
        THEN Return("deleteCommand", prdId, NoId, arg, "ok",
                    Deleted(Append(asked, "deletePrdForce"), Len(stories)),
                    Omit(data, prdId))
        ELSE IF Len(ids(lockedStories(stories))) > 0
        THEN Return("deleteCommand", prdId, NoId, arg,
                    "PrdHasLockedStoriesError",
                    Ran(Append(asked, "deletePrd"),
                        Some(PrdHasLockedStoriesError(
                                prdId, ids(lockedStories(stories))))),
                    data)
        ELSE Return("deleteCommand", prdId, NoId, arg, "ok",
                    Deleted(Append(asked, "deletePrd"), Len(stories)),
                    Omit(data, prdId))

\* fault: with the password of the file, a story is deleted locked or not
deleteCommand_PasswordForcesStory(prdId, storyId, password, yes, confirmed) ==
    LET stories == getPrdStories(data, prdId)
        listed == sort(stories)
        lockedListed == lockedStories(listed)
        hasLockedStories == Len(lockedListed) > 0
        failure == IF IsSome(password) THEN verifyFailure(Get(password))
                   ELSE None
        arg == DeleteOptions(password, yes, confirmed)
        asked == (IF hasLockedStories THEN <<"list", "verify">>
                  ELSE <<"list">>)
                     \o (IF yes THEN <<>> ELSE <<"confirm">>)
    IN  IF IsSome(storyId) /\ IsSome(password) /\ failure = None
             /\ some(stories, Get(storyId))
        THEN Return("deleteCommand", prdId, Get(storyId), arg, "ok",
                    Ran(<<"delete">>, None),
                    Put(data, prdId, withoutId(stories, Get(storyId))))
        ELSE IF IsSome(storyId)
        THEN deleteStory(prdId, Get(storyId), arg)
        ELSE IF Len(listed) = 0
        THEN Return("deleteCommand", prdId, NoId, arg, "empty",
                    Ran(<<"list">>, None), data)
        ELSE IF hasLockedStories /\ password = None
        THEN Return("deleteCommand", prdId, NoId, arg, "CannotDeletePrd",
                    Ran(<<"list">>,
                        Some(CannotDeletePrd(prdId, ids(lockedListed)))),
                    data)
        ELSE IF hasLockedStories /\ IsSome(failure)
        THEN Return("deleteCommand", prdId, NoId, arg, Get(failure).tag,
                    Ran(<<"list", "verify">>, failure), data)
        ELSE IF ~yes /\ ~confirmed
        THEN Return("deleteCommand", prdId, NoId, arg, "cancelled",
                    Ran(asked, None), data)
        ELSE IF hasLockedStories
        THEN Return("deleteCommand", prdId, NoId, arg, "ok",
                    Deleted(Append(asked, "deletePrdForce"), Len(stories)),
                    Omit(data, prdId))
        ELSE IF Len(ids(lockedStories(stories))) > 0
        THEN Return("deleteCommand", prdId, NoId, arg,
                    "PrdHasLockedStoriesError",
                    Ran(Append(asked, "deletePrd"),
                        Some(PrdHasLockedStoriesError(
                                prdId, ids(lockedStories(stories))))),
                    data)
        ELSE Return("deleteCommand", prdId, NoId, arg, "ok",
                    Deleted(Append(asked, "deletePrd"), Len(stories)),
                    Omit(data, prdId))

\* fault: the prompt comes before the password is looked at
deleteCommand_ConfirmsFirst(prdId, storyId, password, yes, confirmed) ==
    LET stories == getPrdStories(data, prdId)
        listed == sort(stories)
        lockedListed == lockedStories(listed)
        hasLockedStories == Len(lockedListed) > 0
        failure == IF IsSome(password) THEN verifyFailure(Get(password))
                   ELSE None
        arg == DeleteOptions(password, yes, confirmed)
        asked == (IF hasLockedStories THEN <<"list", "verify">>
                  ELSE <<"list">>)
                     \o (IF yes THEN <<>> ELSE <<"confirm">>)
    IN  IF IsSome(storyId)
        THEN deleteStory(prdId, Get(storyId), arg)
        ELSE IF Len(listed) = 0
        THEN Return("deleteCommand", prdId, NoId, arg, "empty",
                    Ran(<<"list">>, None), data)
        ELSE IF ~yes /\ ~confirmed
        THEN Return("deleteCommand", prdId, NoId, arg, "cancelled",
                    Ran(<<"list", "confirm">>, None), data)
        ELSE IF hasLockedStories /\ password = None
        THEN Return("deleteCommand", prdId, NoId, arg, "CannotDeletePrd",
                    Ran(<<"list">>,
                        Some(CannotDeletePrd(prdId, ids(lockedListed)))),
                    data)
        ELSE IF hasLockedStories /\ IsSome(failure)
        THEN Return("deleteCommand", prdId, NoId, arg, Get(failure).tag,
                    Ran(<<"list", "verify">>, failure), data)
        ELSE IF ~yes /\ ~confirmed
        THEN Return("deleteCommand", prdId, NoId, arg, "cancelled",
                    Ran(asked, None), data)
        ELSE IF hasLockedStories
        THEN Return("deleteCommand", prdId, NoId, arg, "ok",
                    Deleted(Append(asked, "deletePrdForce"), Len(stories)),
                    Omit(data, prdId))
        ELSE IF Len(ids(lockedStories(stories))) > 0
        THEN Return("deleteCommand", prdId, NoId, arg,
                    "PrdHasLockedStoriesError",
                    Ran(Append(asked, "deletePrd"),
                        Some(PrdHasLockedStoriesError(
                                prdId, ids(lockedStories(stories))))),
                    data)
        ELSE Return("deleteCommand", prdId, NoId, arg, "ok",
                    Deleted(Append(asked, "deletePrd"), Len(stories)),
                    Omit(data, prdId))

\* prdman delete <prd-id> [<story-id>] [--password <password>] [--yes];
\* confirmed is the answer to the prompt, asked for without --yes
deleteCommand(prdId, storyId, password, yes, confirmed) ==
    LET stories == getPrdStories(data, prdId)
        listed == sort(stories)
        lockedListed == lockedStories(listed)
        hasLockedStories == Len(lockedListed) > 0
        failure == IF IsSome(password) THEN verifyFailure(Get(password))
                   ELSE None
        arg == DeleteOptions(password, yes, confirmed)
        asked == (IF hasLockedStories THEN <<"list", "verify">>
                  ELSE <<"list">>)
                     \o (IF yes THEN <<>> ELSE <<"confirm">>)
    IN  IF IsSome(storyId)
        THEN deleteStory(prdId, Get(storyId), arg)
        ELSE IF Len(listed) = 0
        THEN Return("deleteCommand", prdId, NoId, arg, "empty",
                    Ran(<<"list">>, None), data)
        ELSE IF hasLockedStories /\ password = None
        THEN Return("deleteCommand", prdId, NoId, arg, "CannotDeletePrd",
                    Ran(<<"list">>,
                        Some(CannotDeletePrd(prdId, ids(lockedListed)))),
                    data)
        ELSE IF hasLockedStories /\ IsSome(failure)
        THEN Return("deleteCommand", prdId, NoId, arg, Get(failure).tag,
                    Ran(<<"list", "verify">>, failure), data)
        ELSE IF ~yes /\ ~confirmed
        THEN Return("deleteCommand", prdId, NoId, arg, "cancelled",
                    Ran(asked, None), data)
        ELSE IF hasLockedStories
        THEN Return("deleteCommand", prdId, NoId, arg, "ok",
                    Deleted(Append(asked, "deletePrdForce"), Len(stories)),
                    Omit(data, prdId))
        ELSE IF Len(ids(lockedStories(stories))) > 0
        THEN Return("deleteCommand", prdId, NoId, arg,
                    "PrdHasLockedStoriesError",
                    Ran(Append(asked, "deletePrd"),
                        Some(PrdHasLockedStoriesError(
                                prdId, ids(lockedStories(stories))))),
                    data)
        ELSE Return("deleteCommand", prdId, NoId, arg, "ok",
                    Deleted(Append(asked, "deletePrd"), Len(stories)),
                    Omit(data, prdId))

----------------------------------------------------------------------------
(* The data file: JSON, load and save *)

\* the number that JSON.parse makes of 1e999, which Schema.Number accepts
Infinity == 1000000

\* JSON.stringify of a number: a number that is not finite becomes null
stringifyNumber(n) == IF n = Infinity THEN <<"null">> ELSE <<"number", n>>

\* Schema.Date: a Date is written as its ISO string and read back from it
toISOString(t) == <<"iso", t>>
parseDate(str) == str[2]

\* Schema.encode of a StoryItem, as JSON.stringify writes it: a note that
\* is undefined has no key
encodeStory(story) ==
    LET fields ==
            [id |-> story.id,
             priority |-> stringifyNumber(story.priority),
             name |-> story.name,
             description |-> story.description,
             steps |-> story.steps,
             acceptanceCriteria |-> story.acceptanceCriteria,
             status |-> story.status,
             createdAt |-> toISOString(story.createdAt),
             updatedAt |-> toISOString(story.updatedAt),
             locked |-> story.locked]
    IN  IF IsSome(story.note) THEN fields @@ [note |-> Get(story.note)]
        ELSE fields

encodeStore(d) ==
    [prdId \in DOMAIN d |->
        [k \in 1..Len(d[prdId]) |-> encodeStory(d[prdId][k])]]

\* Schema.decodeUnknown of a StoryItem
decodeStory(json) ==
    [id |-> json.id,
     priority |-> json.priority[2],
     name |-> json.name,
     description |-> json.description,
     steps |-> json.steps,
     acceptanceCriteria |-> json.acceptanceCriteria,
     status |-> json.status,
     note |-> IF "note" \in DOMAIN json THEN Some(json.note) ELSE None,
     createdAt |-> parseDate(json.createdAt),
     updatedAt |-> parseDate(json.updatedAt),
     locked |-> json.locked]

\* the schema accepts the JSON: every priority is a number
decodable(json) ==
    \A prdId \in DOMAIN json :
        \A k \in 1..Len(json[prdId]) : json[prdId][k].priority[1] = "number"

\* fault: a text of white space is handed to the decoder
load_NoBlankTest(f) ==
    IF f.kind = "missing" THEN Some(EmptyStore)
    ELSE IF f.kind = "text" THEN None
    ELSE IF ~decodable(f.json) THEN None
    ELSE Some([prdId \in DOMAIN f.json |->
                 [k \in 1..Len(f.json[prdId]) |->
                     decodeStory(f.json[prdId][k])]])

\* load: the store the file holds, or None where the decoder fails and
\* the operation dies (Effect.orDie)
load(f) ==
    IF f.kind = "missing" THEN Some(EmptyStore)
    ELSE IF f.kind = "text"
    THEN IF trim(f.text) = <<>> THEN Some(EmptyStore) ELSE None
    ELSE IF ~decodable(f.json) THEN None
    ELSE Some([prdId \in DOMAIN f.json |->
                 [k \in 1..Len(f.json[prdId]) |->
                     decodeStory(f.json[prdId][k])]])

\* save: the content of the file once writeFileString is through
save(d) == JsonFile(encodeStore(d))

\* a call of an operation of the repository
Call(op, prdId, id, arg) == [op |-> op, prdId |-> prdId, id |-> id, arg |-> arg]

\* what an operation makes of the store it loaded: its result, the store
\* it computed, and whether it saves it
Outcome(kind, value, newData, saved) ==
    [kind |-> kind, value |-> value, data |-> newData, saved |-> saved]
Saved(value, newData) == Outcome("ok", value, newData, TRUE)
Read(value, d) == Outcome("ok", value, d, FALSE)
Failed(error, d) == Outcome(error.tag, error, d, FALSE)

\* the operations of the repository, as what they make of the store d
\* they loaded at time t
perform(call, d, t) ==
    LET prdId == call.prdId
        id == call.id
        stories == getPrdStories(d, prdId)
        index == findIndex(stories, id)
        lockedIds == ids(lockedStories(stories))
        nonEmpty(key) == key \in DOMAIN d /\ Len(d[key]) > 0
    IN  CASE call.op = "create" ->
               IF some(stories, call.arg.id)
               THEN Failed(DuplicateIdError(prdId, call.arg.id), d)
               ELSE LET newStory == StoryItem(call.arg, t, t, FALSE)
                    IN  Saved(newStory,
                              Put(d, prdId, Append(stories, newStory)))
          [] call.op = "update" ->
               IF index = 0 THEN Failed(StoryNotFoundError(prdId, id), d)
               ELSE IF stories[index].locked
               THEN Failed(StoryLockedError(id), d)
               ELSE LET updated == mergePartial(stories[index], call.arg, t)
                    IN  Saved(updated,
                              Put(d, prdId,
                                  [stories EXCEPT ![index] = updated]))
          [] call.op = "updateStatus" ->
               IF index = 0 THEN Failed(StoryNotFoundError(prdId, id), d)
               ELSE LET updated == withStatus(stories[index], call.arg, t)
                    IN  Saved(updated,
                              Put(d, prdId,
                                  [stories EXCEPT ![index] = updated]))
          [] call.op = "delete" ->
               IF index = 0 THEN Failed(StoryNotFoundError(prdId, id), d)
               ELSE IF stories[index].locked
               THEN Failed(StoryLockedError(id), d)
               ELSE Saved(Void, Put(d, prdId, withoutId(stories, id)))
          [] call.op = "list" -> Read(sort(stories), d)
          [] call.op = "get" ->
               IF index = 0 THEN Failed(StoryNotFoundError(prdId, id), d)
               ELSE Read(stories[index], d)
          [] call.op \in {"lock", "unlock"} ->
               IF index = 0 THEN Failed(StoryNotFoundError(prdId, id), d)
               ELSE Saved(Void,
                          Put(d, prdId,
                              [stories EXCEPT
                                 ![index] = withLocked(stories[index],
                                                       call.op = "lock", t)]))
          [] call.op = "listPrds" -> Read(SelectSeq(PrdIdOrder, nonEmpty), d)
          [] call.op = "importFile" ->
               LET r == importItems(stories, call.arg, t)
               IN  Saved([created |-> r.created, skipped |-> r.skipped],
                         Put(d, prdId, r.stories))
          [] call.op = "deletePrd" ->
               IF Len(stories) = 0 THEN Read([deleted |-> 0], d)
               ELSE IF Len(lockedIds) > 0
               THEN Failed(PrdHasLockedStoriesError(prdId, lockedIds), d)
               ELSE Saved([deleted |-> Len(stories)], Omit(d, prdId))
          [] call.op = "deletePrdForce" ->
               IF Len(stories) = 0 THEN Read([deleted |-> 0], d)
               ELSE Saved([deleted |-> Len(stories)], Omit(d, prdId))

\* an operation from its load to its save, with no other process at work
operate(call) ==
    LET loaded == load(file)
    IN  IF loaded = None
        THEN /\ last' = [op |-> call.op, prdId |-> call.prdId,
                         id |-> call.id, arg |-> call.arg, at |-> now,
                         kind |-> "defect", value |-> Void]
             /\ UNCHANGED <<data, now, pre, passwordFile, file, proc>>
        ELSE LET r == perform(call, Get(loaded), now)
             IN  /\ last' = [op |-> call.op, prdId |-> call.prdId,
                             id |-> call.id, arg |-> call.arg, at |-> now,
                             kind |-> r.kind, value |-> r.value]
                 /\ pre' = Get(loaded)
                 /\ data' = r.data
                 /\ file' = IF r.saved THEN save(r.data) ELSE file
                 /\ UNCHANGED <<now, passwordFile, proc>>


\* TestStoryRepo.getPrdMap: the map of the PRD, made and stored when the
\* store has none; a map is the sequence of its values in insertion order
getPrdMap(d, prdId) == IF prdId \in DOMAIN d THEN d ELSE Put(d, prdId, <<>>)

\* the loop of TestStoryRepo.importFile over the items
RECURSIVE testImportItems(_, _, _)
testImportItems(stories, items, t) ==
    IF items = <<>> THEN [stories |-> stories, created |-> 0, skipped |-> 0]
    ELSE IF some(stories, Head(items).id)
    THEN LET r == testImportItems(stories, Tail(items), t)
         IN  [r EXCEPT !.skipped = @ + 1]
    ELSE LET newStory == StoryItem(Head(items), t, t, FALSE)
             r == testImportItems(Append(stories, newStory), Tail(items), t)
         IN  [r EXCEPT !.created = @ + 1]

\* the operations of the in-memory repository of the tests, as what they
\* make of the store d at time t
TestStoryRepo(call, d, t) ==
    LET prdId == call.prdId
        id == call.id
        got == getPrdMap(d, prdId)
        stories == got[prdId]
        index == findIndex(stories, id)
        held == getPrdStories(d, prdId)
        lockedIds == ids(lockedStories(held))
        nonEmpty(key) == key \in DOMAIN d /\ Len(d[key]) > 0
    IN  CASE call.op = "create" ->
               IF some(stories, call.arg.id)
               THEN Failed(DuplicateIdError(prdId, call.arg.id), got)
               ELSE LET story == StoryItem(call.arg, t, t, FALSE)
                    IN  Saved(story, Put(got, prdId, Append(stories, story)))
          [] call.op = "update" ->
               IF index = 0 THEN Failed(StoryNotFoundError(prdId, id), got)
               ELSE IF stories[index].locked
               THEN Failed(StoryLockedError(id), got)
               ELSE LET updated == mergePartial(stories[index], call.arg, t)
                    IN  Saved(updated,
                              Put(got, prdId,
                                  [stories EXCEPT ![index] = updated]))
          [] call.op = "updateStatus" ->
               IF index = 0 THEN Failed(StoryNotFoundError(prdId, id), got)
               ELSE LET updated == withStatus(stories[index], call.arg, t)
                    IN  Saved(updated,
                              Put(got, prdId,
                                  [stories EXCEPT ![index] = updated]))
          [] call.op = "delete" ->
               IF index = 0 THEN Failed(StoryNotFoundError(prdId, id), got)
               ELSE IF stories[index].locked
               THEN Failed(StoryLockedError(id), got)
               ELSE Saved(Void, Put(got, prdId, withoutId(stories, id)))
          [] call.op = "list" -> Read(sort(stories), got)
          [] call.op = "get" ->
               IF index = 0 THEN Failed(StoryNotFoundError(prdId, id), got)
               ELSE Read(stories[index], got)
          [] call.op \in {"lock", "unlock"} ->
               IF index = 0 THEN Failed(StoryNotFoundError(prdId, id), got)
               ELSE Saved(Void,
                          Put(got, prdId,
                              [stories EXCEPT
                                 ![index] = withLocked(stories[index],
                                                       call.op = "lock", t)]))
          [] call.op = "listPrds" -> Read(SelectSeq(PrdIdOrder, nonEmpty), d)
          [] call.op = "importFile" ->
               LET r == testImportItems(stories, call.arg, t)
               IN  Saved([created |-> r.created, skipped |-> r.skipped],
                         Put(got, prdId, r.stories))
          [] call.op = "deletePrd" ->
               IF Len(held) = 0 THEN Read([deleted |-> 0], d)
               ELSE IF Len(lockedIds) > 0
               THEN Failed(PrdHasLockedStoriesError(prdId, lockedIds), d)
               ELSE Saved([deleted |-> Len(held)], Omit(d, prdId))
          [] call.op = "deletePrdForce" ->
               IF Len(held) = 0 THEN Read([deleted |-> 0], d)
               ELSE Saved([deleted |-> Len(held)], Omit(d, prdId))

\* what a call returned: its kind (ok, or the tag of the error) and value
Returned(r) == [kind |-> r.kind, value |-> r.value]

\* the load of the JSON repository died
Died == [kind |-> "defect", value |-> Void]

\* one call made of both repositories: of the JSON repository on the file,
\* and of the in-memory repository, whose store is data
mirror(call) ==
    LET loaded == load(file)
        test == TestStoryRepo(call, data, now)
    IN  /\ pre' = data
        /\ data' = test.data
        /\ IF loaded = None
           THEN /\ last' = [op |-> call.op, prdId |-> call.prdId,
                            id |-> call.id, arg |-> call.arg, at |-> now,
                            kind |-> "defect",
                            value |-> [json |-> Died,
                                       test |-> Returned(test)]]
                /\ UNCHANGED file
           ELSE LET r == perform(call, Get(loaded), now)
                IN  /\ last' = [op |-> call.op, prdId |-> call.prdId,
                                id |-> call.id, arg |-> call.arg, at |-> now,
                                kind |-> r.kind,
                                value |-> [json |-> Returned(r),
                                           test |-> Returned(test)]]
                    /\ file' = IF r.saved THEN save(r.data) ELSE file
        /\ UNCHANGED <<now, passwordFile, proc>>

\* the operation of process p is through: its call and result are
\* recorded, with the store it had loaded, and data is the store that was
\* last saved in full
complete(p, r) ==
    /\ last' = [op |-> proc[p].call.op, prdId |-> proc[p].call.prdId,
                id |-> proc[p].call.id, arg |-> proc[p].call.arg,
                at |-> now, kind |-> r.kind, value |-> r.value]
    /\ pre' = proc[p].loaded
    /\ data' = IF r.saved THEN r.data ELSE data
    /\ proc' = [proc EXCEPT ![p] = Idle]

\* process p starts an operation: it loads the store
beginOperation(p, call) ==
    /\ proc[p].pc = "idle"
    /\ LET loaded == load(file)
       IN  IF loaded = None
           THEN /\ last' = [op |-> call.op, prdId |-> call.prdId,
                            id |-> call.id, arg |-> call.arg, at |-> now,
                            kind |-> "defect", value |-> Void]
                /\ UNCHANGED <<data, pre, proc>>
           ELSE /\ proc' = [proc EXCEPT ![p] = [pc |-> "loaded",
                                                call |-> call,
                                                loaded |-> Get(loaded)]]
                /\ UNCHANGED <<data, pre, last>>
    /\ UNCHANGED <<now, passwordFile, file>>

\* process p transforms the store that is in the file when it saves
beginSave_Reloads(p) ==
    /\ proc[p].pc = "loaded"
    /\ LET r == perform(proc[p].call, Get(load(file)), now)
       IN  IF r.saved
           THEN /\ file' = TextFile(<<>>)
                /\ proc' = [proc EXCEPT ![p] = [pc |-> "writing",
                                                call |-> proc[p].call,
                                                loaded |-> proc[p].loaded,
                                                result |-> r]]
                /\ UNCHANGED <<data, pre, last>>
           ELSE /\ complete(p, r)
                /\ UNCHANGED file
    /\ UNCHANGED <<now, passwordFile>>

\* process p goes on from the store it loaded: it returns without a save,
\* or it calls save, and writeFileString opens the file, which empties it
beginSave(p) ==
    /\ proc[p].pc = "loaded"
    /\ LET r == perform(proc[p].call, proc[p].loaded, now)
       IN  IF r.saved
           THEN /\ file' = TextFile(<<>>)
                /\ proc' = [proc EXCEPT ![p] = [pc |-> "writing",
                                                call |-> proc[p].call,
                                                loaded |-> proc[p].loaded,
                                                result |-> r]]
                /\ UNCHANGED <<data, pre, last>>
           ELSE /\ complete(p, r)
                /\ UNCHANGED file
    /\ UNCHANGED <<now, passwordFile>>

\* the json is written and the operation of process p returns
endSave(p) ==
    /\ proc[p].pc = "writing"
    /\ file' = save(proc[p].result.data)
    /\ complete(p, proc[p].result)
    /\ UNCHANGED <<now, passwordFile>>

----------------------------------------------------------------------------
Next ==
    \/ \E prdId \in PrdIds, input \in StoryInputs : create(prdId, input)
    \/ \E prdId \in PrdIds, id \in StoryIds, partial \in PartialInputs :
          update(prdId, id, partial)
    \/ \E prdId \in PrdIds, id \in StoryIds, status \in StatusInputs :
          updateStatus(prdId, id, status)
    \/ \E prdId \in PrdIds, id \in StoryIds : delete_(prdId, id)
    \/ \E prdId \in PrdIds : list(prdId)
    \/ \E prdId \in PrdIds, id \in StoryIds : get(prdId, id)
    \/ \E prdId \in PrdIds, id \in StoryIds : lock(prdId, id)
    \/ \E prdId \in PrdIds, id \in StoryIds : unlock(prdId, id)
    \/ listPrds
    \/ \E importData \in ImportFiles : importFile(importData)
    \/ \E prdId \in PrdIds : deletePrd(prdId)
    \/ \E prdId \in PrdIds : deletePrdForce(prdId)

Spec == Init /\ [][Next]_vars

\* the life of one story of one PRD, over time
NextStory ==
    \/ Tick
    \/ \E input \in RichInputs : create("AUTH", input)
    \/ \E partial \in RichPartials : update("AUTH", TheStoryId, partial)
    \/ \E status \in Status : updateStatus("AUTH", TheStoryId, status)
    \/ delete_("AUTH", TheStoryId)
    \/ get("AUTH", TheStoryId)
    \/ lock("AUTH", TheStoryId)
    \/ unlock("AUTH", TheStoryId)

SpecStory == Init /\ [][NextStory]_vars

\* the stories of one PRD and their order
NextList ==
    \/ \E input \in ListInputs : create("AUTH", input)
    \/ \E id \in ListIds, partial \in ListPartials :
          update("AUTH", id, partial)
    \/ \E id \in ListIds : delete_("AUTH", id)
    \/ list("AUTH")

SpecList == Init /\ [][NextList]_vars

\* imports into one PRD over time: the items of a file may share an id
\* and differ in their fields
RenamedInput(id) ==
    StoryItemInput(id, 2, "Signup", "", <<"s1">>, <<>>, "done", None)

ImportItems ==
    {PlainInput("AUTH-0001"), RenamedInput("AUTH-0001"),
     PlainInput("AUTH-0002")}

TimedImportFiles ==
    {[id |-> "AUTH", items |-> its] : its \in SeqsUpTo(ImportItems, MaxBatch)}

NextImport ==
    \/ Tick
    \/ \E importData \in TimedImportFiles : importFile(importData)
    \/ \E id \in StoryIds : lock("AUTH", id)
    \/ \E id \in StoryIds : unlock("AUTH", id)
    \/ \E id \in StoryIds : delete_("AUTH", id)

SpecImport == Init /\ [][NextImport]_vars

\* the password service alone: the file is absent or holds any secret
InitPassword ==
    /\ data = EmptyStore
    /\ now = 1
    /\ pre = EmptyStore
    /\ last = [op |-> "init", prdId |-> NoId, id |-> NoId, arg |-> NoArg,
               at |-> 1, kind |-> "ok", value |-> Void]
    /\ file = MissingFile
    /\ proc = AllIdle
    /\ passwordFile \in Optional(Secrets)

NextPassword == \E password \in Secrets : verify(password)

SpecPassword == InitPassword /\ [][NextPassword]_vars

\* the lock and unlock commands on the stories of one PRD, over time; the
\* password file is absent or holds "a" and a trailing blank
CliPasswordFiles == {None, Some(<<"a", " ">>)}
CliPasswords == {<<"a">>, <<"a", " ">>, <<>>}

InitCli ==
    /\ data = EmptyStore
    /\ now = 1
    /\ pre = EmptyStore
    /\ last = [op |-> "init", prdId |-> NoId, id |-> NoId, arg |-> NoArg,
               at |-> 1, kind |-> "ok", value |-> Void]
    /\ file = MissingFile
    /\ proc = AllIdle
    /\ passwordFile \in CliPasswordFiles

NextCli ==
    \/ Tick
    \/ \E input \in StoryInputs : create("AUTH", input)
    \/ \E id \in StoryIds, password \in CliPasswords :
          lockCommand("AUTH", id, password)
    \/ \E id \in StoryIds, password \in CliPasswords :
          unlockCommand("AUTH", id, password)

SpecCli == InitCli /\ [][NextCli]_vars

\* the commands on the stories of one PRD; the password file is absent or
\* holds "a" and a trailing blank
CommandPartials ==
    { EmptyPartial,
      [EmptyPartial EXCEPT !.status = Some("done")],
      [EmptyPartial EXCEPT !.name = Some("Logout")] }

CommandImports == {importData \in ImportFiles : importData.id = "AUTH"}

NextCommands ==
    \/ \E input \in StoryInputs : create("AUTH", input)
    \/ \E id \in StoryIds, partial \in CommandPartials :
          update("AUTH", id, partial)
    \/ \E id \in StoryIds, status \in StatusInputs :
          updateStatus("AUTH", id, status)
    \/ \E importData \in CommandImports : importFile(importData)
    \/ list("AUTH")
    \/ \E id \in StoryIds : get("AUTH", id)
    \/ \E id \in StoryIds, password \in CliPasswords :
          lockCommand("AUTH", id, password)
    \/ \E id \in StoryIds, password \in CliPasswords :
          unlockCommand("AUTH", id, password)
    \/ \E storyId \in Optional(StoryIds), password \in Optional(CliPasswords),
          yes \in BOOLEAN, confirmed \in BOOLEAN :
          deleteCommand("AUTH", storyId, password, yes, confirmed)

SpecCommands == InitCli /\ [][NextCommands]_vars

\* two PRDs that share a story id: AUTH may hold both stories, PAY the
\* first one
FrameTargets ==
    {<<"AUTH", "AUTH-0001">>, <<"AUTH", "AUTH-0002">>, <<"PAY", "AUTH-0001">>}

FramePartials == {[EmptyPartial EXCEPT !.name = Some("Logout")]}

FrameImports ==
    {[id |-> target[1], items |-> <<PlainInput(target[2])>>] :
        target \in FrameTargets}
        \cup {[id |-> "AUTH",
               items |-> <<PlainInput("AUTH-0002"), PlainInput("AUTH-0001")>>]}

NextFrame ==
    \/ \E target \in FrameTargets :
          create(target[1], PlainInput(target[2]))
    \/ \E target \in FrameTargets, partial \in FramePartials :
          update(target[1], target[2], partial)
    \/ \E target \in FrameTargets : updateStatus(target[1], target[2], "done")
    \/ \E target \in FrameTargets : delete_(target[1], target[2])
    \/ \E target \in FrameTargets : lock(target[1], target[2])
    \/ \E target \in FrameTargets : unlock(target[1], target[2])
    \/ \E importData \in FrameImports : importFile(importData)
    \/ \E prdId \in PrdIds : deletePrd(prdId)
    \/ \E prdId \in PrdIds : deletePrdForce(prdId)

SpecFrame == Init /\ [][NextFrame]_vars

\* the operations on the file of one PRD, one process, over time: the
\* file is missing, blank or not JSON at first; a priority may be 1e999
InitialFiles ==
    {MissingFile, TextFile(<<>>), TextFile(<<" ">>), TextFile(<<"a">>)}

FileInputs ==
    {PlainInput(id) : id \in StoryIds}
        \cup {[PlainInput(TheStoryId) EXCEPT !.note = Some("n1")],
              [PlainInput(TheStoryId) EXCEPT !.priority = Infinity]}

FileCalls ==
    {Call("create", "AUTH", input.id, input) : input \in FileInputs}
        \cup {Call(op, "AUTH", id, NoArg) :
                 op \in {"delete", "get", "lock", "unlock"}, id \in StoryIds}
        \cup {Call("updateStatus", "AUTH", id, "done") : id \in StoryIds}
        \cup {Call("update", "AUTH", TheStoryId,
                   [EmptyPartial EXCEPT !.priority = Some(Infinity)])}
        \cup {Call(op, "AUTH", NoId, NoArg) :
                 op \in {"list", "deletePrd", "deletePrdForce"}}
        \cup {Call("listPrds", NoId, NoId, NoArg)}
        \cup {Call("importFile", "AUTH", NoId, <<PlainInput(id)>>) :
                 id \in StoryIds}

InitFile ==
    /\ data = EmptyStore
    /\ now = 1
    /\ pre = EmptyStore
    /\ last = [op |-> "init", prdId |-> NoId, id |-> NoId, arg |-> NoArg,
               at |-> 1, kind |-> "ok", value |-> Void]
    /\ passwordFile = None
    /\ file \in InitialFiles
    /\ proc = AllIdle

NextFile ==
    \/ Tick
    \/ \E call \in FileCalls : operate(call)

SpecFile == InitFile /\ [][NextFile]_vars

\* the calls made of both repositories, from the empty store and within
\* one reading of the clock: those of SpecFile, with an update that
\* changes the order of list, and a story in a second PRD
MirrorCalls ==
    {call \in FileCalls : call.op # "update" /\ call.op # "get"}
        \cup {Call("get", "AUTH", TheStoryId, NoArg),
              Call("update", "AUTH", TheStoryId,
                   [EmptyPartial EXCEPT !.priority = Some(2)]),
              Call("create", "PAY", TheStoryId, PlainInput(TheStoryId))}

NextMirror == \E call \in MirrorCalls : mirror(call)

SpecMirror == Init /\ [][NextMirror]_vars

\* two processes at work on the file of one PRD: A holds the password and
\* locks, unlocks and force-deletes, B does what needs no password
OwnerCalls ==
    { Call("create", "AUTH", "AUTH-0001", PlainInput("AUTH-0001")),
      Call("lock", "AUTH", "AUTH-0001", NoArg),
      Call("unlock", "AUTH", "AUTH-0001", NoArg),
      Call("deletePrdForce", "AUTH", NoId, NoArg) }

OtherCalls ==
    { Call("create", "AUTH", "AUTH-0002", PlainInput("AUTH-0002")),
      Call("update", "AUTH", "AUTH-0001",
           [EmptyPartial EXCEPT !.name = Some("Logout")]),
      Call("updateStatus", "AUTH", "AUTH-0001", "done"),
      Call("delete", "AUTH", "AUTH-0001", NoArg),
      Call("importFile", "AUTH", NoId, <<PlainInput("AUTH-0002")>>),
      Call("deletePrd", "AUTH", NoId, NoArg),
      Call("list", "AUTH", NoId, NoArg) }

CallsOf(p) == IF p = "A" THEN OwnerCalls ELSE OtherCalls

NextRace ==
    \/ \E p \in Procs : \E call \in CallsOf(p) : beginOperation(p, call)
    \/ \E p \in Procs : beginSave(p)
    \/ \E p \in Procs : endSave(p)

SpecRace == Init /\ [][NextRace]_vars

----------------------------------------------------------------------------
(* What the last call was about *)

\* the stories of the PRD the last call named, before and after it
StoriesBefore == getPrdStories(pre, last.prdId)
StoriesAfter == getPrdStories(data, last.prdId)

\* the story the last call named, where the call found it
TargetIndex == findIndex(StoriesBefore, last.id)
TargetExisted == some(StoriesBefore, last.id)
TargetBefore == StoriesBefore[TargetIndex]
TargetAfter == StoriesAfter[findIndex(StoriesAfter, last.id)]

\* the story with the given id after the last call
TargetAfterOf(id) == StoriesAfter[findIndex(StoriesAfter, id)]

UserFields ==
    {"priority", "name", "description", "steps", "acceptanceCriteria",
     "status", "note"}

\* no PRD of the store d holds two stories with the same id
UniqueIds(d) ==
    \A p \in DOMAIN d :
        \A i, j \in 1..Len(d[p]) : d[p][i].id = d[p][j].id => i = j

\* the position of the story id in stories (ids are unique)
PositionOf(stories, id) == findIndex(stories, id)

----------------------------------------------------------------------------
(* The claims *)

\* C1: update on a story whose locked flag is true fails with the Locked
\* error whatever the partial input is, and leaves the store as it was: the
\* story a get finds afterwards is the story as it was before the call,
\* updatedAt and locked included.
C1_UpdateOnLockedFails ==
    (last.op = "update" /\ TargetExisted /\ TargetBefore.locked)
        => /\ last.kind = "StoryLockedError"
           /\ last.value = StoryLockedError(last.id)
           /\ data = pre
           /\ some(StoriesAfter, last.id)
           /\ TargetAfter = TargetBefore

\* an update that supplies fields was called, later than the last change,
\* on a locked story
C1_Witness ==
    /\ last.op = "update" /\ TargetExisted /\ TargetBefore.locked
    /\ last.kind = "StoryLockedError"
    /\ IsSome(last.arg.name) /\ Get(last.arg.name) # TargetBefore.name
    /\ last.at > TargetBefore.updatedAt

\* C2: delete on a story whose locked flag is true fails with the Locked
\* error and removes nothing: the store is as it was and the story is still
\* among the stories list returns.
C2_DeleteOnLockedFails ==
    (last.op = "delete" /\ TargetExisted /\ TargetBefore.locked)
        => /\ last.kind = "StoryLockedError"
           /\ data = pre
           /\ \E k \in 1..Len(sort(StoriesAfter)) :
                 sort(StoriesAfter)[k] = TargetBefore

\* delete was called on a locked story that has an unlocked sibling
C2_Witness ==
    /\ last.op = "delete" /\ TargetExisted /\ TargetBefore.locked
    /\ last.kind = "StoryLockedError"
    /\ Len(StoriesAfter) = 2
    /\ \E k \in 1..2 : ~StoriesAfter[k].locked

\* C3: updateStatus succeeds whenever the story exists, whatever its status
\* and its lock; the story it leaves has the status asked for and differs
\* from the story before in status and updatedAt only.
C3_UpdateStatusIgnoresLock ==
    (last.op = "updateStatus" /\ TargetExisted)
        => /\ last.kind = "ok"
           /\ some(StoriesAfter, last.id)
           /\ TargetAfter = last.value
           /\ TargetAfter.status = last.arg
           /\ [TargetAfter EXCEPT !.status = TargetBefore.status,
                                  !.updatedAt = TargetBefore.updatedAt]
                 = TargetBefore
           /\ Len(StoriesAfter) = Len(StoriesBefore)

\* updateStatus changed the status of a locked story
C3_Witness ==
    /\ last.op = "updateStatus" /\ TargetExisted /\ TargetBefore.locked
    /\ last.kind = "ok"
    /\ TargetBefore.status = "done" /\ last.arg = "sent-back"
    /\ TargetAfter.locked

\* C4: the locked flag of a story that is in the store before and after an
\* operation differs only when the operation is lock or unlock of that story.
C4_LockedChangesOnlyByLockUnlock ==
    data # pre => \A p \in PrdIds, id \in StoryIds :
        LET before == getPrdStories(pre, p)
            after == getPrdStories(data, p)
        IN  (/\ some(before, id) /\ some(after, id)
             /\ before[findIndex(before, id)].locked
                    # after[findIndex(after, id)].locked)
                => /\ last.op \in {"lock", "unlock"}
                   /\ last.prdId = p /\ last.id = id
                   /\ last.kind = "ok"

\* updateStatus succeeded on a locked story, which is locked still
C4_Witness ==
    /\ last.op = "updateStatus" /\ last.kind = "ok"
    /\ TargetBefore.locked /\ TargetAfter.locked
    /\ TargetBefore.status # TargetAfter.status

\* C5: from the empty store, whatever operations are called, no PRD holds
\* two stories with the same id.
C5_IdsUniquePerPrd == UniqueIds(data)

\* an import whose two items carry the same id added one story
C5_Witness ==
    /\ last.op = "importFile" /\ Len(last.arg) = 2
    /\ last.arg[1].id = last.arg[2].id
    /\ last.value = [created |-> 1, skipped |-> 1]
    /\ ~some(StoriesBefore, last.arg[1].id)

\* C6: create fails with DuplicateId, and leaves the store as it was,
\* exactly when a story with the id of the input is in the PRD named; a
\* story with that id in another PRD does not make it fail.
C6_CreateDuplicateIffInSamePrd ==
    last.op = "create"
        => /\ last.kind = "DuplicateIdError" <=> some(StoriesBefore, last.id)
           /\ last.kind \in {"ok", "DuplicateIdError"}
           /\ last.kind = "DuplicateIdError"
                 => data = pre
                    /\ last.value = DuplicateIdError(last.prdId, last.id)

\* create succeeded with an id that another PRD holds
C6_Witness ==
    /\ last.op = "create" /\ last.kind = "ok"
    /\ \E p \in DOMAIN pre : p # last.prdId /\ some(pre[p], last.id)

C8_IdAndCreatedAtKept ==
    (last.op \in {"update", "updateStatus", "lock", "unlock"})
        => /\ Len(StoriesAfter) = Len(StoriesBefore)
           /\ \A k \in 1..Len(StoriesBefore) :
                 /\ StoriesAfter[k].id = StoriesBefore[k].id
                 /\ StoriesAfter[k].createdAt = StoriesBefore[k].createdAt

\* update succeeded, later than the creation, with a partial that carries
\* another id
C8_Witness ==
    /\ last.op = "update" /\ last.kind = "ok"
    /\ IsSome(last.arg.id) /\ Get(last.arg.id) # last.id
    /\ last.at > TargetBefore.createdAt
    /\ StoriesAfter[TargetIndex].updatedAt = last.at

\* C9: after a successful update each of priority, name, description,
\* steps, acceptanceCriteria, status and note has the value the partial
\* supplies, or the value it had when the partial does not supply it; a
\* supplied array replaces the stored one as a whole.
C9_UpdateMergesPerField ==
    (last.op = "update" /\ last.kind = "ok")
        => /\ last.value = StoriesAfter[TargetIndex]
           /\ \A f \in UserFields \ {"note"} :
                 last.value[f] = IF IsSome(last.arg[f]) THEN Get(last.arg[f])
                                 ELSE TargetBefore[f]
           /\ last.value.note = IF IsSome(last.arg.note) THEN last.arg.note
                                ELSE TargetBefore.note

\* update replaced two steps by one and kept the name it was not given
C9_Witness ==
    /\ last.op = "update" /\ last.kind = "ok"
    /\ last.arg.steps = Some(<<"s3">>) /\ TargetBefore.steps = <<"s1", "s2">>
    /\ last.value.steps = <<"s3">>
    /\ last.arg.name = None /\ last.value.name = "Logout"

\* C10: list returns exactly the stories of the PRD, in ascending order of
\* priority, those of equal priority in the order they are stored in; it
\* never fails and never changes the store.
C10_ListSortedStable ==
    last.op = "list"
        => /\ last.kind = "ok"
           /\ data = pre
           /\ Len(last.value) = Len(StoriesAfter)
           /\ \A k \in 1..Len(StoriesAfter) :
                 \E j \in 1..Len(last.value) : last.value[j] = StoriesAfter[k]
           /\ \A i, j \in 1..Len(last.value) :
                 i < j =>
                    /\ last.value[i].priority <= last.value[j].priority
                    /\ last.value[i].priority = last.value[j].priority
                          => PositionOf(StoriesAfter, last.value[i].id)
                                < PositionOf(StoriesAfter, last.value[j].id)

\* list returned three stories, the one stored second first and the two of
\* equal priority in their stored order
C10_Witness ==
    /\ last.op = "list" /\ Len(last.value) = 3
    /\ StoriesAfter[1].priority = 2 /\ StoriesAfter[2].priority = 1
    /\ StoriesAfter[3].priority = 2
    /\ last.value = <<StoriesAfter[2], StoriesAfter[1], StoriesAfter[3]>>

----------------------------------------------------------------------------
(* Deletion of a PRD, the PRDs listed, the keys of the store *)

\* the ids of the locked stories among stories, as a set
LockedIdSet(stories) ==
    {stories[k].id : k \in {j \in 1..Len(stories) : stories[j].locked}}

\* the elements of a sequence, as a set
Elements(seq) == {seq[k] : k \in 1..Len(seq)}

\* C13: deletePrd on a PRD with at least one locked story fails with
\* PrdHasLockedStoriesError carrying the PRD id and the ids of the locked
\* stories, every one of them once and no other id; nothing is deleted and
\* the store is left as it was; a deletePrd of the same PRD right after a
\* failed one fails with the identical error.
C13_DeletePrdLockedFails ==
    [][LET stories == getPrdStories(data, last'.prdId)
       IN  (last'.op = "deletePrd" /\ LockedIdSet(stories) # {})
              => /\ last'.kind = "PrdHasLockedStoriesError"
                 /\ last'.value.tag = "PrdHasLockedStoriesError"
                 /\ last'.value.prdId = last'.prdId
                 /\ Elements(last'.value.lockedIds) = LockedIdSet(stories)
                 /\ Len(last'.value.lockedIds)
                       = Cardinality(LockedIdSet(stories))
                 /\ data' = data
                 /\ (/\ last.op = "deletePrd"
                     /\ last.prdId = last'.prdId
                     /\ last.kind = "PrdHasLockedStoriesError")
                       => last'.value = last.value]_vars

\* deletePrd failed on a PRD that holds a locked and an unlocked story, and
\* both are still there
C13_Witness ==
    /\ last.op = "deletePrd" /\ last.kind = "PrdHasLockedStoriesError"
    /\ Len(StoriesBefore) = 2
    /\ Cardinality(LockedIdSet(StoriesBefore)) = 1
    /\ Len(last.value.lockedIds) = 1
    /\ StoriesAfter = StoriesBefore

\* C14: deletePrd on a PRD with n >= 1 stories, none of them locked,
\* removes the key of the PRD from the store, leaves the other PRDs alone
\* and returns {deleted: n}; on a PRD with no story it returns {deleted: 0}
\* and leaves the store as it was. A list of the PRD right after a deletePrd
\* that succeeded is empty, and a listPrds right after it lacks the PRD.
C14_DeletePrdRemovesKey ==
    [][LET stories == getPrdStories(data, last'.prdId)
       IN  /\ (/\ last'.op = "deletePrd"
               /\ Len(stories) >= 1
               /\ LockedIdSet(stories) = {})
                 => /\ last'.kind = "ok"
                    /\ last'.value = [deleted |-> Len(stories)]
                    /\ DOMAIN data' = (DOMAIN data) \ {last'.prdId}
                    /\ \A p \in DOMAIN data' : data'[p] = data[p]
           /\ (last'.op = "deletePrd" /\ Len(stories) = 0)
                 => /\ last'.kind = "ok"
                    /\ last'.value = [deleted |-> 0]
                    /\ data' = data
           /\ (/\ last.op = "deletePrd" /\ last.kind = "ok"
               /\ last'.op = "list" /\ last'.prdId = last.prdId)
                 => last'.value = <<>>
           /\ (/\ last.op = "deletePrd" /\ last.kind = "ok"
               /\ last'.op = "listPrds")
                 => last.prdId \notin Elements(last'.value)]_vars

\* deletePrd removed a PRD of two stories while the other PRD held one
C14_Witness ==
    /\ last.op = "deletePrd" /\ last.kind = "ok"
    /\ last.value = [deleted |-> 2]
    /\ Len(StoriesBefore) = 2
    /\ last.prdId \notin DOMAIN data
    /\ \E p \in DOMAIN data : Len(data[p]) = 1

\* C15: deletePrdForce never fails; it removes every story of the PRD,
\* locked or not, and returns the number of stories the PRD held; on a PRD
\* that is not in the store or holds no story it returns {deleted: 0}. A
\* list of the PRD right after it is empty, and a listPrds right after it
\* lacks the PRD.
C15_DeletePrdForceRemovesAll ==
    [][LET stories == getPrdStories(data, last'.prdId)
       IN  /\ last'.op = "deletePrdForce"
                 => /\ last'.kind = "ok"
                    /\ last'.value = [deleted |-> Len(stories)]
                    /\ getPrdStories(data', last'.prdId) = <<>>
                    /\ Len(stories) >= 1 => last'.prdId \notin DOMAIN data'
                    /\ \A p \in (DOMAIN data) \ {last'.prdId} :
                          p \in DOMAIN data' /\ data'[p] = data[p]
           /\ (/\ last.op = "deletePrdForce"
               /\ last'.op = "list" /\ last'.prdId = last.prdId)
                 => last'.value = <<>>
           /\ (last.op = "deletePrdForce" /\ last'.op = "listPrds")
                 => last.prdId \notin Elements(last'.value)]_vars

\* deletePrdForce removed a PRD of two stories, one of them locked
C15_Witness ==
    /\ last.op = "deletePrdForce" /\ last.kind = "ok"
    /\ last.value = [deleted |-> 2]
    /\ Cardinality(LockedIdSet(StoriesBefore)) = 1
    /\ last.prdId \notin DOMAIN data

\* C16: listPrds returns exactly the PRD ids that hold at least one story,
\* each once, in alphabetical order ("AUTH" before "PAY"); a PRD whose last
\* story delete removed is not returned. It never fails and leaves the
\* store as it was.
C16_ListPrdsNonEmptySorted ==
    last.op = "listPrds"
        => /\ last.kind = "ok"
           /\ data = pre
           /\ Elements(last.value)
                 = {p \in DOMAIN data : Len(data[p]) >= 1}
           /\ \A i, j \in 1..Len(last.value) :
                 last.value[i] = last.value[j] => i = j
           /\ \A i, j \in 1..Len(last.value) :
                 (last.value[i] = "AUTH" /\ last.value[j] = "PAY") => i < j

\* listPrds returned PAY alone while the store still had the key AUTH,
\* with no story under it
C16_Witness ==
    /\ last.op = "listPrds" /\ last.value = <<"PAY">>
    /\ "AUTH" \in DOMAIN data /\ data["AUTH"] = <<>>

\* C17, as claimed: every key of the store maps to a non-empty list of
\* stories.
C17_NoEmptyKey == \A p \in DOMAIN data : Len(data[p]) > 0

\* C17, amended: a key of the store maps to an empty list only where delete
\* removed the last story of the PRD, or importFile added no story to a PRD
\* that was not in the store, or where the key was empty before the call;
\* no other operation leaves an empty list under a key.
C17_EmptyKeyOnlyFromDeleteOrImport ==
    \A p \in DOMAIN data :
        data[p] = <<>>
            => \/ p \in DOMAIN pre /\ pre[p] = <<>>
               \/ /\ last.op = "delete" /\ last.kind = "ok"
                  /\ last.prdId = p
                  /\ Len(getPrdStories(pre, p)) = 1
               \/ /\ last.op = "importFile" /\ last.prdId = p
                  /\ last.arg = <<>>
                  /\ p \notin DOMAIN pre

\* a forced deletion removed the key of a PRD while the other PRD, emptied
\* by delete before, kept its key
C17_Witness ==
    /\ last.op = "deletePrdForce" /\ last.value.deleted >= 1
    /\ last.prdId \notin DOMAIN data
    /\ \E p \in DOMAIN data : data[p] = <<>>

\* C19: update, updateStatus, delete, get, lock and unlock called with an
\* id that no story of the PRD has (the PRD may be absent, another PRD may
\* hold a story with that id) fail with StoryNotFoundError carrying the PRD
\* id and the story id, and leave the store as it was.
C19_AbsentIdNotFound ==
    (/\ last.op \in {"update", "updateStatus", "delete", "get", "lock",
                     "unlock"}
     /\ ~TargetExisted)
        => /\ last.kind = "StoryNotFoundError"
           /\ last.value.tag = "StoryNotFoundError"
           /\ last.value.prdId = last.prdId
           /\ last.value.id = last.id
           /\ data = pre

\* get was called with an id that only the other PRD holds
C19_Witness ==
    /\ last.op = "get" /\ ~TargetExisted
    /\ last.kind = "StoryNotFoundError"
    /\ \E p \in DOMAIN pre : p # last.prdId /\ some(pre[p], last.id)

----------------------------------------------------------------------------
(* Import *)

\* the item at position k of the last import has an id that a story of the
\* PRD had before the call, or that an earlier item of the file has
IsDuplicate(k) ==
    \/ some(StoriesBefore, last.arg[k].id)
    \/ \E j \in 1..(k - 1) : last.arg[j].id = last.arg[k].id

\* C11: importFile with N items of which K have an id that a story of the
\* PRD already has or that an earlier item of the file has returns
\* created = N - K and skipped = K; the story stored for each id the import
\* added carries the fields of the first item of the file with that id.
C11_ImportCountsFirstOccurrence ==
    last.op = "importFile"
        => LET N == Len(last.arg)
               K == Cardinality({k \in 1..N : IsDuplicate(k)})
           IN  /\ last.kind = "ok"
               /\ last.value = [created |-> N - K, skipped |-> K]
               /\ Len(StoriesAfter) = Len(StoriesBefore) + (N - K)
               /\ \A k \in 1..N :
                     ~IsDuplicate(k)
                        => /\ some(StoriesAfter, last.arg[k].id)
                           /\ InputOf(StoriesAfter[
                                 findIndex(StoriesAfter, last.arg[k].id)])
                                 = last.arg[k]

\* a file of two items with one new id was imported: the first was stored,
\* the second, with other fields, was skipped
C11_Witness ==
    /\ last.op = "importFile" /\ Len(last.arg) = 2
    /\ last.arg[1].id = last.arg[2].id /\ last.arg[1] # last.arg[2]
    /\ ~some(StoriesBefore, last.arg[1].id)
    /\ last.value = [created |-> 1, skipped |-> 1]
    /\ some(StoriesAfter, last.arg[1].id)
    /\ TargetAfterOf(last.arg[1].id).name = last.arg[1].name

\* C12: importFile never fails and changes no story the PRD had before the
\* call: each is stored afterwards as it was, locked and updatedAt included,
\* also when the file has an item with its id and when stories of the PRD
\* are locked; every story it adds is unlocked.
C12_ImportKeepsExisting ==
    last.op = "importFile"
        => /\ last.kind = "ok"
           /\ \A k \in 1..Len(StoriesBefore) :
                 /\ k <= Len(StoriesAfter)
                 /\ StoriesAfter[k] = StoriesBefore[k]
           /\ \A k \in 1..Len(StoriesAfter) :
                 ~some(StoriesBefore, StoriesAfter[k].id)
                    => StoriesAfter[k].locked = FALSE

\* a file with an item for a locked story, with other fields and at a
\* later time, and an item with a new id was imported
C12_Witness ==
    /\ last.op = "importFile"
    /\ last.value = [created |-> 1, skipped |-> 1]
    /\ \E k \in 1..Len(StoriesBefore), j \in 1..Len(last.arg) :
          /\ StoriesBefore[k].locked
          /\ StoriesBefore[k].updatedAt < last.at
          /\ last.arg[j].id = StoriesBefore[k].id
          /\ last.arg[j].name # StoriesBefore[k].name
    /\ \E k \in 1..Len(StoriesAfter) :
          StoriesAfter[k].createdAt = last.at /\ ~StoriesAfter[k].locked

----------------------------------------------------------------------------
(* The password *)

\* core is stored without the white space around it: stored is some white
\* space, then core, then some white space, and core neither starts nor
\* ends with white space
IsTrimOf(stored, core) ==
    \E i, j \in 0..Len(stored) :
        /\ i + j + Len(core) = Len(stored)
        /\ \A k \in 1..i : stored[k] \in WhiteSpace
        /\ \A k \in (Len(stored) - j + 1)..Len(stored) :
              stored[k] \in WhiteSpace
        /\ \A k \in 1..Len(core) : stored[i + k] = core[k]
        /\ core # <<>>
              => core[1] \notin WhiteSpace /\ core[Len(core)] \notin WhiteSpace

\* what C18 says of every secret and candidate: NotConfigured exactly when
\* no secret is stored, success exactly when the trimmed secret is the
\* candidate, InvalidPassword otherwise
VerifyDecides ==
    /\ (last.kind = "PasswordNotConfiguredError") <=> (passwordFile = None)
    /\ passwordFile # None
          => /\ (last.kind = "ok") <=> IsTrimOf(Get(passwordFile), last.arg)
             /\ last.kind \in {"ok", "InvalidPasswordError"}
    /\ last.kind = "ok" => last.value = Void
    /\ last.kind # "ok" => last.value = [tag |-> last.kind]
    /\ (passwordFile = Some(<<>>) /\ last.arg = <<>>) => last.kind = "ok"

\* C18, as claimed: verify fails with PasswordNotConfiguredError exactly
\* when there is no password file; otherwise it succeeds exactly when the
\* content of the file, trimmed, is the candidate character for character
\* (the candidate is not trimmed), and fails with InvalidPasswordError
\* otherwise; empty against empty succeeds, and the empty candidate against
\* a non-empty secret fails with InvalidPasswordError.
C18_VerifyAsClaimed ==
    last.op = "verify"
        => /\ VerifyDecides
           /\ (/\ passwordFile # None
               /\ Get(passwordFile) # <<>>
               /\ last.arg = <<>>)
                 => last.kind = "InvalidPasswordError"

\* C18, amended: as claimed, but the empty candidate fails with
\* InvalidPasswordError against a secret that is non-empty once trimmed (a
\* secret of white space only is trimmed to the empty string and accepts
\* the empty candidate).
C18_VerifyTrimmedSecret ==
    last.op = "verify"
        => /\ VerifyDecides
           /\ (/\ passwordFile # None
               /\ \E k \in 1..Len(Get(passwordFile)) :
                     Get(passwordFile)[k] \notin WhiteSpace
               /\ last.arg = <<>>)
                 => last.kind = "InvalidPasswordError"
           /\ (/\ passwordFile # None
               /\ \A k \in 1..Len(Get(passwordFile)) :
                     Get(passwordFile)[k] \in WhiteSpace
               /\ last.arg = <<>>)
                 => last.kind = "ok"

\* verify accepted a candidate that the file holds with white space on
\* both sides
C18_Witness ==
    /\ last.op = "verify" /\ last.kind = "ok"
    /\ passwordFile = Some(<<" ", "a", " ">>)
    /\ last.arg = <<"a">>

\* C20: the lock and unlock commands verify the password before they call
\* the repository: when verify fails (InvalidPasswordError or
\* PasswordNotConfiguredError) lock / unlock is not called and the store is
\* as it was, locked and updatedAt of the story included; when verify
\* succeeds lock / unlock is called next, and the story, if the PRD has
\* it, is stored locked (lock) or unlocked (unlock).
C20_CommandsVerifyFirst ==
    last.op \in {"lockCommand", "unlockCommand"}
        => LET repoCall == IF last.op = "lockCommand" THEN "lock"
                           ELSE "unlock"
               accepted == /\ passwordFile # None
                           /\ IsTrimOf(Get(passwordFile), last.arg)
           IN  /\ last.value.calls[1] = "verify"
               /\ ~accepted
                     => /\ last.kind
                             = IF passwordFile = None
                               THEN "PasswordNotConfiguredError"
                               ELSE "InvalidPasswordError"
                        /\ last.value.calls = <<"verify">>
                        /\ data = pre
               /\ accepted
                     => /\ last.value.calls = <<"verify", repoCall>>
                        /\ last.kind \in {"ok", "StoryNotFoundError"}
                        /\ TargetExisted
                              => /\ last.kind = "ok"
                                 /\ TargetAfter.locked
                                       = (last.op = "lockCommand")

\* the lock command was refused a password that is the content of the
\* file, blank included, on a story that was unlocked at an earlier time
C20_Witness ==
    /\ last.op = "lockCommand" /\ last.kind = "InvalidPasswordError"
    /\ passwordFile = Some(last.arg)
    /\ TargetExisted /\ ~TargetBefore.locked
    /\ TargetBefore.updatedAt < last.at
    /\ TargetAfter = TargetBefore

----------------------------------------------------------------------------
(* Lock and unlock *)

AllFields == UserFields \cup {"id", "createdAt", "updatedAt", "locked"}

\* C23: lock and unlock set the locked flag whatever it was: lock on a
\* locked story and unlock on an unlocked story succeed and leave the flag
\* true / false; a get after lock returns locked = true and a get after
\* unlock (also after lock, then unlock) returns locked = false; neither
\* changes a field other than locked and updatedAt.
C23_LockUnlockUnconditional ==
    [][LET stories == getPrdStories(data, last'.prdId)
           index == findIndex(stories, last'.id)
           after == getPrdStories(data', last'.prdId)
       IN  /\ (last'.op \in {"lock", "unlock"} /\ index # 0)
                 => /\ last'.kind = "ok"
                    /\ Len(after) = Len(stories)
                    /\ after[index].locked = (last'.op = "lock")
                    /\ \A f \in AllFields \ {"locked", "updatedAt"} :
                          after[index][f] = stories[index][f]
                    /\ \A k \in 1..Len(stories) :
                          k # index => after[k] = stories[k]
           /\ (/\ last.op \in {"lock", "unlock"} /\ last.kind = "ok"
               /\ last'.op = "get"
               /\ last'.prdId = last.prdId /\ last'.id = last.id)
                 => /\ last'.kind = "ok"
                    /\ last'.value.locked = (last.op = "lock")]_vars

\* lock was called, at a later time, on a story that was locked already
C23_Witness ==
    /\ last.op = "lock" /\ last.kind = "ok"
    /\ TargetExisted /\ TargetBefore.locked
    /\ TargetBefore.updatedAt < last.at
    /\ TargetAfter.locked /\ TargetAfter.updatedAt = last.at
    /\ TargetAfter.name = TargetBefore.name

----------------------------------------------------------------------------
(* The commands and the password *)

\* the last command was the delete command without a story id
PrdDeletion == last.op = "deleteCommand" /\ last.id = NoId

\* the password given to the last command is the secret of the file
PasswordAccepted(password) ==
    /\ IsSome(password)
    /\ passwordFile # None
    /\ IsTrimOf(Get(passwordFile), Get(password))

\* C21: the delete command without a story id, on a PRD with at least one
\* locked story, deletes nothing unless a password was given and verified
\* in that invocation: with no password it reports the locked ids and stops
\* before any other call, also with --yes; with a password that is wrong or
\* not configured it reports the password error; in both cases the stories
\* of the PRD all remain.
C21_PrdDeletionNeedsPassword ==
    (PrdDeletion /\ LockedIdSet(StoriesBefore) # {})
        => /\ last.value.calls[1] = "list"
           /\ last.arg.password = None
                 => /\ last.kind = "CannotDeletePrd"
                    /\ last.value.calls = <<"list">>
                    /\ Elements(Get(last.value.error).lockedIds)
                          = LockedIdSet(StoriesBefore)
                    /\ data = pre
           /\ (IsSome(last.arg.password)
               /\ ~PasswordAccepted(last.arg.password))
                 => /\ last.kind = IF passwordFile = None
                                   THEN "PasswordNotConfiguredError"
                                   ELSE "InvalidPasswordError"
                    /\ last.value.calls = <<"list", "verify">>
                    /\ data = pre
           /\ data # pre
                 => /\ PasswordAccepted(last.arg.password)
                    /\ last.value.calls[2] = "verify"

\* the delete command was run with --yes and no password on a PRD of a
\* locked and an unlocked story, and both are still there
C21_Witness ==
    /\ PrdDeletion /\ last.arg.yes /\ last.arg.password = None
    /\ passwordFile # None
    /\ Len(StoriesBefore) = 2
    /\ Cardinality(LockedIdSet(StoriesBefore)) = 1
    /\ last.kind = "CannotDeletePrd"
    /\ data = pre

\* C22: the delete command without a story id, confirmed (--yes or yes to
\* the prompt), on a PRD with locked stories and with the right password
\* calls deletePrdForce and removes every story, locked or not; on a PRD
\* with stories none of which is locked it calls deletePrd; in both cases
\* the count it reports is the number of stories it listed, and a list of
\* the PRD right after it is empty.
C22_PrdDeletionRemovesAll ==
    [][/\ LET stories == getPrdStories(data, last'.prdId)
              isLocked == LockedIdSet(stories) # {}
          IN  (/\ last'.op = "deleteCommand" /\ last'.id = NoId
               /\ Len(stories) >= 1
               /\ last'.arg.yes \/ last'.arg.confirmed
               /\ isLocked => PasswordAccepted(last'.arg.password))
                 => /\ last'.kind = "ok"
                    /\ last'.value.deleted = Len(stories)
                    /\ last'.value.calls[Len(last'.value.calls)]
                          = IF isLocked THEN "deletePrdForce" ELSE "deletePrd"
                    /\ getPrdStories(data', last'.prdId) = <<>>
       /\ (/\ PrdDeletion /\ last.kind = "ok"
           /\ last'.op = "list" /\ last'.prdId = last.prdId)
             => last'.value = <<>>]_vars

\* the delete command, with the right password and yes to the prompt,
\* removed a PRD of a locked and an unlocked story
C22_Witness ==
    /\ PrdDeletion /\ last.kind = "ok"
    /\ ~last.arg.yes /\ last.arg.confirmed
    /\ Len(StoriesBefore) = 2
    /\ Cardinality(LockedIdSet(StoriesBefore)) = 1
    /\ last.value.deleted = 2
    /\ last.value.calls = <<"list", "verify", "confirm", "deletePrdForce">>
    /\ StoriesAfter = <<>>

\* the step is a command that verified the password it was given
VerifiedStep ==
    /\ last'.op \in {"lockCommand", "unlockCommand", "deleteCommand"}
    /\ "verify" \in Elements(last'.value.calls)
    /\ last'.kind
          \notin {"InvalidPasswordError", "PasswordNotConfiguredError"}

\* C27: no command that runs without a password verified (create, update,
\* update-status, delete, import, list, details, and lock, unlock, delete
\* with a password that is wrong, not configured or not given) turns the
\* locked flag of a story from true to false, removes a locked story, or
\* changes a field of a locked story other than status and updatedAt.
C27_NoUnlockWithoutPassword ==
    [][~VerifiedStep
          => \A p \in DOMAIN data :
                \A k \in 1..Len(data[p]) :
                    data[p][k].locked
                       => /\ p \in DOMAIN data'
                          /\ \E j \in 1..Len(data'[p]) :
                                /\ data'[p][j].locked
                                /\ \A f \in AllFields \ {"status", "updatedAt"} :
                                      data'[p][j][f] = data[p][k][f]]_vars

\* the delete command was refused a wrong password, with --yes, on a PRD
\* whose stories are both locked
C27_Witness ==
    /\ PrdDeletion /\ last.arg.yes
    /\ last.kind = "InvalidPasswordError"
    /\ Cardinality(LockedIdSet(StoriesBefore)) = 2
    /\ data = pre

\* the last command was the delete command with a story id
StoryDeletion == last.op = "deleteCommand" /\ last.id # NoId

\* C28: the lock check is made per operation, not per field: update on a
\* locked story fails with StoryLockedError also when the partial input
\* has only a status, or no field; updateStatus succeeds on the same story;
\* update and delete look at the lock of the story they name only, so that
\* a locked sibling in the PRD does not make them fail.
C28_LockCheckPerOperation ==
    /\ (last.op = "update" /\ TargetExisted)
          => /\ TargetBefore.locked
                   => last.kind = "StoryLockedError" /\ data = pre
             /\ ~TargetBefore.locked => last.kind = "ok"
    /\ (last.op = "updateStatus" /\ TargetExisted)
          => /\ last.kind = "ok"
             /\ TargetAfter.status = last.arg
             /\ TargetAfter.locked = TargetBefore.locked
    /\ (StoryDeletion /\ TargetExisted)
          => /\ TargetBefore.locked
                   => last.kind = "StoryLockedError" /\ data = pre
             /\ ~TargetBefore.locked
                   => last.kind = "ok" /\ ~some(StoriesAfter, last.id)

\* update with the status alone was refused on a locked story whose
\* status differs
C28_Witness ==
    /\ last.op = "update" /\ TargetExisted /\ TargetBefore.locked
    /\ last.arg = [EmptyPartial EXCEPT !.status = Some("done")]
    /\ TargetBefore.status = "todo"
    /\ last.kind = "StoryLockedError"

\* update went through on a story whose sibling is locked
SiblingLockedUpdate ==
    /\ last.op = "update" /\ last.kind = "ok"
    /\ LockedIdSet(StoriesBefore) # {}

----------------------------------------------------------------------------
(* The data file *)

\* the call the last step made
LastCall == Call(last.op, last.prdId, last.id, last.arg)

\* every step of an operation of the repository is what perform makes of
\* the store before it
PerformMatchesOperations ==
    [][last'.op # "init" /\ last' # last
          => LET r == perform(Call(last'.op, last'.prdId, last'.id,
                                   last'.arg), data, now)
             IN  /\ r.kind = last'.kind
                 /\ r.value = last'.value
                 /\ r.data = data']_vars

\* C24, as claimed: loading the file that the operations of the repository
\* left and saving what was loaded changes nothing, the store loaded
\* afterwards is the store loaded before.
C24_SaveLoadRoundTrip ==
    file.kind = "json"
        => /\ load(file) # None
           /\ load(save(Get(load(file)))) = load(file)

\* the round trip of the stores whose priorities are all finite
FiniteRoundTrip ==
    (file.kind = "json" /\ decodable(file.json))
        => /\ save(Get(load(file))) = file
           /\ load(file) = Some(data)

\* the file is missing, empty or holds white space only
BlankFile ==
    \/ file = MissingFile
    \/ /\ file.kind = "text"
       /\ \A k \in 1..Len(file.text) : file.text[k] \in WhiteSpace

\* C25: when the data file is missing, empty or holds white space only,
\* load returns the empty store and does not fail: list returns the empty
\* sequence, listPrds returns the empty sequence, get fails with
\* StoryNotFoundError, and a create succeeds and saves a store that holds
\* the story it made and nothing else.
C25_BlankFileIsEmptyStore ==
    [][(BlankFile /\ now' = now)
          => /\ last'.kind # "defect"
             /\ last'.op = "list"
                   => last'.kind = "ok" /\ last'.value = <<>> /\ file' = file
             /\ last'.op = "listPrds"
                   => last'.kind = "ok" /\ last'.value = <<>> /\ file' = file
             /\ last'.op = "get"
                   => last'.kind = "StoryNotFoundError" /\ file' = file
             /\ last'.op = "create"
                   => /\ last'.kind = "ok"
                      /\ InputOf(last'.value) = last'.arg
                      /\ file' = save([p \in {last'.prdId}
                                           |-> <<last'.value>>])]_vars

\* get found no story in a file of one blank
C25_Witness ==
    /\ last.op = "get" /\ last.kind = "StoryNotFoundError"
    /\ file = TextFile(<<" ">>)

\* C26, as claimed: a save replaces the store in one step for the other
\* process: when a process begins to save, what a load of the file returns
\* is still the whole store that was there, or already the whole store
\* that is saved, and never an empty store in between.
C26_SaveIsAtomic ==
    [][\A p \in Procs :
          (proc[p].pc = "loaded" /\ proc'[p].pc = "writing")
              => load(file') \in {load(file),
                                  Some(proc'[p].result.data)}]_vars

\* C29: the last writer wins. Whatever the other process has saved since
\* process p loaded, the store p saves is the result of p's operation on
\* the store p loaded, and p's operation returns what it returns on that
\* store: it reports no conflict, and a story that another create saved
\* after p's load is gone from the file.
C29_LastWriterWins ==
    [][\A p \in Procs :
          (proc[p].pc = "writing" /\ proc'[p].pc = "idle")
              => LET r == perform(proc[p].call, proc[p].loaded, now)
                 IN  /\ r.saved
                     /\ file' = save(r.data)
                     /\ last'.kind = r.kind
                     /\ last'.value = r.value
                     /\ \A q \in Procs \ {p} : proc'[q] = proc[q]
                     /\ ( /\ proc[p].call.op = "create"
                          /\ last.op = "create"
                          /\ last.kind = "ok"
                          /\ last.id # proc[p].call.id
                          /\ pre = proc[p].loaded )
                            => /\ last'.kind = "ok"
                               /\ ~some(getPrdStories(Get(load(file')),
                                                      last.prdId), last.id)
                     ]_vars

\* both processes loaded the empty store, A saved AUTH-0001 and has loaded
\* it again, and then B saved AUTH-0002: AUTH-0001 is not in the file
C29_Witness ==
    /\ last.op = "create" /\ last.id = "AUTH-0002" /\ last.kind = "ok"
    /\ pre = EmptyStore
    /\ proc["A"].pc = "loaded"
    /\ some(getPrdStories(proc["A"].loaded, "AUTH"), "AUTH-0001")
    /\ file.kind = "json"
    /\ ids(getPrdStories(Get(load(file)), "AUTH")) = <<"AUTH-0002">>

\* story s is in store d, locked, with the fields it has in s other than
\* status and updatedAt
KeptLocked(s, d) ==
    \E prd \in DOMAIN d :
       \E j \in 1..Len(d[prd]) :
          /\ d[prd][j].locked
          /\ \A f \in AllFields \ {"status", "updatedAt"} :
                d[prd][j][f] = s[f]

\* the stories that are locked in store d
LockedIn(d) ==
    UNION {Elements(lockedStories(d[prd])) : prd \in DOMAIN d}

\* process p is at the step that ends its operation
Completes(p) == proc[p].pc # "idle" /\ proc'[p].pc = "idle"

\* C30, as claimed: under every interleaving of the steps of two
\* processes, a story that is locked in the store last saved stays in the
\* saved store, locked and with its content, until an unlock or a
\* deletePrdForce completes: the end of an update, updateStatus, delete,
\* create, importFile or deletePrd does not unlock, change or remove it.
C30_LockedStaysLocked ==
    [][\A p \in Procs :
          (Completes(p) /\ proc[p].call.op \notin {"unlock", "deletePrdForce"})
              => \A s \in LockedIn(data) : KeptLocked(s, data')]_vars

\* C30, amended: the lock holds against the operations that loaded the
\* store as it is when they end: when an operation other than unlock and
\* deletePrdForce ends, and the store it loaded is the store last saved,
\* every story locked in that store is in the store last saved, locked and
\* with its fields other than status and updatedAt, and where the
\* operation saved, the story is so in the file it wrote.  (An operation
\* that loaded an older store, or loaded during a save, writes back its
\* result on what it loaded.)
C30_LockedStaysLockedWhenLoaded ==
    [][\A p \in Procs :
          ( /\ Completes(p)
            /\ proc[p].call.op \notin {"unlock", "deletePrdForce"}
            /\ proc[p].loaded = data )
              => /\ \A s \in LockedIn(data) : KeptLocked(s, data')
                 /\ proc[p].pc = "writing"
                       => /\ load(file') # None
                          /\ \A s \in LockedIn(data) :
                                KeptLocked(s, Get(load(file')))]_vars

\* B loaded the store in which AUTH-0001 is locked and set its status,
\* between the load and the save of an operation of A, and the story is
\* still locked
C30_Witness ==
    /\ last.op = "updateStatus" /\ last.kind = "ok"
    /\ last.value.locked /\ last.value.status = "done"
    /\ \E s \in LockedIn(pre) : s.id = "AUTH-0001" /\ s.status = "todo"
    /\ \E s \in LockedIn(data) : s.id = "AUTH-0001" /\ s.status = "done"
    /\ proc["A"].pc = "loaded"
    /\ proc["A"].loaded = pre

----------------------------------------------------------------------------
(* The delete command: password, prompt and order *)

\* the password given to the last delete command, if any, is not the
\* secret of the file, or there is no file
PasswordNotAccepted ==
    IsSome(last.arg.password) /\ ~PasswordAccepted(last.arg.password)

\* C35: the delete command without a story id verifies the password only
\* when the PRD has a locked story: when it has stories and none is locked,
\* verify is not called, no password error is reported, and with --yes or
\* a confirmed prompt deletePrd is called and the PRD is deleted, also with
\* a wrong password or no password file.
C35_PasswordCheckedOnlyWhenLocked ==
    PrdDeletion
        => /\ "verify" \in Elements(last.value.calls)
                 => LockedIdSet(StoriesBefore) # {}
           /\ (Len(StoriesBefore) > 0 /\ LockedIdSet(StoriesBefore) = {})
                 => /\ "verify" \notin Elements(last.value.calls)
                    /\ last.kind \notin {"InvalidPasswordError",
                                         "PasswordNotConfiguredError"}
                    /\ (last.arg.yes \/ last.arg.confirmed)
                          => /\ last.kind = "ok"
                             /\ last.value.calls[Len(last.value.calls)]
                                   = "deletePrd"
                             /\ last.value.deleted = Len(StoriesBefore)
                             /\ last.prdId \notin DOMAIN data

\* a PRD of two unlocked stories was deleted with --yes and a password
\* that is not the secret of the file
C35_Witness ==
    /\ PrdDeletion /\ last.kind = "ok" /\ last.arg.yes
    /\ PasswordNotAccepted
    /\ passwordFile # None
    /\ Len(StoriesBefore) = 2
    /\ LockedIdSet(StoriesBefore) = {}
    /\ last.prdId \notin DOMAIN data

\* C36: the delete command with a story id calls repo.delete and nothing
\* else, whatever the password option: on a locked story it fails with
\* StoryLockedError and the store is unchanged, with the right password,
\* a wrong one or none.
C36_PasswordNeverDeletesLockedStory ==
    StoryDeletion
        => /\ last.value.calls = <<"delete">>
           /\ (TargetExisted /\ TargetBefore.locked)
                 => /\ last.kind = "StoryLockedError"
                    /\ last.value.error = Some(StoryLockedError(last.id))
                    /\ data = pre

\* the delete command was given the secret of the file and the id of a
\* locked story, and failed
C36_Witness ==
    /\ StoryDeletion
    /\ PasswordAccepted(last.arg.password)
    /\ TargetExisted /\ TargetBefore.locked
    /\ last.kind = "StoryLockedError"
    /\ data = pre

\* where name stands in calls, 0 when it does not
PositionIn(calls, name) ==
    IF name \in Elements(calls)
    THEN CHOOSE k \in 1..Len(calls) : calls[k] = name
    ELSE 0

\* a and b are both called only in this order
InOrder(calls, a, b) ==
    (a \in Elements(calls) /\ b \in Elements(calls))
        => PositionIn(calls, a) < PositionIn(calls, b)

DeletionCalls == {"deletePrd", "deletePrdForce"}

\* C37: the delete command without a story id goes through list, the
\* locked check, the password verification, the prompt and the deletion
\* in this order: the prompt is asked only without --yes and only after
\* the password check has passed; when the answer is no, neither deletePrd
\* nor deletePrdForce is called and the store is unchanged; on a PRD with
\* no stories the command stops after list.
C37_DeleteCommandOrder ==
    PrdDeletion
        => LET calls == last.value.calls
               hasLocked == LockedIdSet(StoriesBefore) # {}
           IN  /\ calls[1] = "list"
               /\ \A j, k \in 1..Len(calls) : calls[j] = calls[k] => j = k
               /\ InOrder(calls, "list", "verify")
               /\ InOrder(calls, "verify", "confirm")
               /\ \A d \in DeletionCalls :
                     /\ InOrder(calls, "verify", d)
                     /\ InOrder(calls, "confirm", d)
                     /\ d \in Elements(calls) => calls[Len(calls)] = d
               /\ "confirm" \in Elements(calls)
                     => /\ ~last.arg.yes
                        /\ hasLocked
                              => /\ "verify" \in Elements(calls)
                                 /\ PasswordAccepted(last.arg.password)
               /\ ("confirm" \in Elements(calls) /\ ~last.arg.confirmed)
                     => /\ last.kind = "cancelled"
                        /\ Elements(calls) \cap DeletionCalls = {}
                        /\ data = pre
               /\ (~last.arg.yes /\ Elements(calls) \cap DeletionCalls # {})
                     => "confirm" \in Elements(calls)
               /\ Len(StoriesBefore) = 0
                     => /\ calls = <<"list">>
                        /\ last.kind = "empty"
                        /\ data = pre

\* the password passed for a PRD with a locked story, the prompt was
\* answered no, and nothing was deleted
C37_Witness ==
    /\ PrdDeletion /\ last.kind = "cancelled"
    /\ last.value.calls = <<"list", "verify", "confirm">>
    /\ LockedIdSet(StoriesBefore) # {}
    /\ data = pre

----------------------------------------------------------------------------
(* update: a field omitted and a field supplied empty *)

ArrayFields == {"steps", "acceptanceCriteria"}

\* C34: in update, an array field (steps, acceptanceCriteria) that the
\* partial supplies as the empty array becomes the empty array, and one
\* the partial omits stays as stored; a note that the partial omits stays
\* as stored, so that a story that has a note has one after every update.
C34_OmittedIsNotEmpty ==
    (last.op = "update" /\ last.kind = "ok")
        => /\ \A f \in ArrayFields :
                 /\ last.arg[f] = Some(<<>>) => TargetAfter[f] = <<>>
                 /\ last.arg[f] = None => TargetAfter[f] = TargetBefore[f]
           /\ last.arg.note = None => TargetAfter.note = TargetBefore.note
           /\ IsSome(TargetBefore.note) => IsSome(TargetAfter.note)

\* an update with steps supplied as the empty array emptied the steps of a
\* story that had two, and left its criterion and its note alone
C34_Witness ==
    /\ last.op = "update" /\ last.kind = "ok"
    /\ last.arg.steps = Some(<<>>)
    /\ TargetBefore.steps = <<"s1", "s2">>
    /\ TargetAfter.steps = <<>>
    /\ TargetBefore.acceptanceCriteria = <<"c1">>
    /\ TargetAfter.acceptanceCriteria = <<"c1">>
    /\ TargetAfter.note = Some("n1")

----------------------------------------------------------------------------
(* Timestamps *)

StampingOps == {"update", "updateStatus", "lock", "unlock"}
ReadOps == {"get", "list", "listPrds"}

\* C33: the clock never goes back, and so every story of the store has
\* createdAt <= updatedAt; an update, updateStatus, lock or unlock that
\* succeeds sets updatedAt of its story to the time of the call, also when
\* nothing else changes (a partial with no field, the status the story
\* has, a lock on a locked story), and keeps createdAt; a call that fails
\* and a call that reads leave the store, and so every updatedAt, as it was.
C33_UpdatedAtStamped ==
    /\ \A p \in DOMAIN data :
          \A k \in 1..Len(data[p]) :
             /\ data[p][k].createdAt <= data[p][k].updatedAt
             /\ data[p][k].updatedAt <= now
    /\ (last.op \in StampingOps /\ last.kind = "ok")
          => /\ TargetAfter.updatedAt = last.at
             /\ TargetAfter.createdAt = TargetBefore.createdAt
    /\ (last.kind # "ok" \/ last.op \in ReadOps) => data = pre

\* a lock on a story that was locked at an earlier time, and changed
\* nothing but updatedAt
C33_Witness ==
    /\ last.op = "lock" /\ last.kind = "ok"
    /\ TargetBefore.locked
    /\ TargetBefore.updatedAt < last.at
    /\ TargetAfter = [TargetBefore EXCEPT !.updatedAt = last.at]
    /\ TargetAfter.createdAt < TargetAfter.updatedAt

----------------------------------------------------------------------------
(* A locked story from lock to unlock *)

ContentFields ==
    {"id", "priority", "name", "description", "steps", "acceptanceCriteria",
     "note", "createdAt"}

\* the step ends the lock of story s of PRD prd: an unlock of s, or a
\* deletePrdForce of prd
EndsLock(prd, s) ==
    \/ last'.op = "unlock" /\ last'.prdId = prd /\ last'.id = s.id
    \/ last'.op = "deletePrdForce" /\ last'.prdId = prd

\* C31: in a run of operations one after the other, a story that is
\* locked stays in its PRD, locked, with its id, priority, name,
\* description, steps, acceptanceCriteria, note and createdAt, through
\* every step that is not an unlock of it or a deletePrdForce of its PRD;
\* and a step after which a locked story is gone is a deletePrdForce.
C31_LockedUntilUnlock ==
    [][\A prd \in DOMAIN data :
          \A k \in 1..Len(data[prd]) :
             data[prd][k].locked
                => /\ ~EndsLock(prd, data[prd][k])
                         => /\ prd \in DOMAIN data'
                            /\ \E j \in 1..Len(data'[prd]) :
                                  /\ data'[prd][j].locked
                                  /\ \A f \in ContentFields :
                                        data'[prd][j][f] = data[prd][k][f]
                   /\ ~some(getPrdStories(data', prd), data[prd][k].id)
                         => /\ last'.op = "deletePrdForce"
                            /\ last'.prdId = prd]_vars

\* deletePrd was refused at a later time on a PRD with a locked story that
\* has a note, and the store is as it was
C31_Witness ==
    /\ last.op = "deletePrd" /\ last.kind = "PrdHasLockedStoriesError"
    /\ data = pre
    /\ \E k \in 1..Len(StoriesAfter) :
          /\ StoriesAfter[k].locked
          /\ StoriesAfter[k].note = Some("n1")
          /\ StoriesAfter[k].updatedAt < last.at

----------------------------------------------------------------------------
(* What an operation leaves alone *)

StoryOps == {"create", "update", "updateStatus", "delete", "lock", "unlock"}
InPlaceOps == {"update", "updateStatus", "lock", "unlock"}
PrdOps == {"deletePrd", "deletePrdForce", "importFile"}

\* the id of the story the last call named (create names it in its input)
NamedId == IF last.op = "create" THEN last.arg.id ELSE last.id

\* C32: an operation touches only what it names: after create, update,
\* updateStatus, delete, lock or unlock on a story of a PRD, the other
\* stories of the PRD are as they were and in the order they were, and
\* every other PRD is as it was; a story updated, restamped, locked or
\* unlocked is where it was, a story created or imported is at the end;
\* deletePrd, deletePrdForce and importFile leave every other PRD as it was.
C32_OnlyWhatIsNamed ==
    last.op \in StoryOps \cup PrdOps
        => /\ \A p \in (DOMAIN pre \cup DOMAIN data) \ {last.prdId} :
                 /\ p \in DOMAIN pre
                 /\ p \in DOMAIN data
                 /\ data[p] = pre[p]
           /\ last.op \in StoryOps
                 => withoutId(StoriesAfter, NamedId)
                       = withoutId(StoriesBefore, NamedId)
           /\ (last.op \in InPlaceOps /\ last.kind = "ok")
                 => /\ ids(StoriesAfter) = ids(StoriesBefore)
                    /\ last.op \in {"update", "updateStatus"}
                          => StoriesAfter[TargetIndex] = last.value
           /\ (last.op = "create" /\ last.kind = "ok")
                 => StoriesAfter = Append(StoriesBefore, last.value)
           /\ last.op = "importFile"
                 => /\ Len(StoriesAfter) = Len(StoriesBefore) + last.value.created
                    /\ SubSeq(StoriesAfter, 1, Len(StoriesBefore))
                          = StoriesBefore

\* the first of the two stories of AUTH was renamed and is still the
\* first, and the story of PAY with the same id has its name and its lock
C32_Witness ==
    /\ last.op = "update" /\ last.kind = "ok" /\ last.prdId = "AUTH"
    /\ ids(StoriesAfter) = <<"AUTH-0001", "AUTH-0002">>
    /\ last.id = "AUTH-0001"
    /\ StoriesBefore[1].name = "Login"
    /\ StoriesAfter[1].name = "Logout"
    /\ "PAY" \in DOMAIN data
    /\ ids(data["PAY"]) = <<"AUTH-0001">>
    /\ data["PAY"][1].name = "Login"
    /\ data["PAY"][1].locked

----------------------------------------------------------------------------
(* The in-memory repository of the tests and the JSON repository *)

\* C38, as claimed: from the empty store, every call returns the same in
\* the in-memory repository of the tests and in the JSON repository: the
\* same kind (ok, or the same error) and the same value, the order of a
\* list and the ids of PrdHasLockedStoriesError included.
C38_TestRepoMirrors ==
    last.op # "init"
        => /\ last.value.json.kind = last.value.test.kind
           /\ last.value.json.value = last.value.test.value

\* the stories of store d, PRD by PRD, without the PRDs that have none
NonEmptyPart(d) ==
    [p \in {q \in DOMAIN d : Len(d[q]) > 0} |-> d[p]]

\* as long as the file can be loaded, the two repositories return the same
\* and hold the same stories in the same order
FiniteMirror ==
    (last.op # "init" /\ load(file) # None)
        => /\ last.value.json.kind = last.value.test.kind
           /\ last.value.json.value = last.value.test.value
           /\ NonEmptyPart(Get(load(file))) = NonEmptyPart(data)

====
